---------------------------- MODULE Spec2Model ----------------------------
(***************************************************************************)
(* A model of turtl/core's data layer: the operation/context model and its *)
(* encryption (models/operation.rs), the transaction router                *)
(* (group_operations_by_space) and the state engine (models/state.rs).     *)
(*                                                                         *)
(* Conventions.  Option<T> is a sequence of length at most one: None is    *)
(* <<>> and Some(x) is <<x>>.  HashMap<K, V> is a function whose domain is *)
(* the set of keys present.  An enum value is a record with a `kind` field *)
(* naming the variant and one field per payload component.                 *)
(***************************************************************************)
EXTENDS Integers, Sequences, FiniteSets, TLC

VARIABLES
    \* ---- state engine (models/state.rs) ----
    state,        \* the State the fold owns
    pc,           \* position of the replay loop: "fetch", "apply" or "applied"
    operation,    \* the Operation handed to apply_operation (NoOperation if none)
    before,       \* the State as it was when apply_operation was entered
    result,       \* what apply_operation returned
    nops,         \* number of operations folded so far
    \* ---- transaction router (group_operations_by_space) ----
    transactions, \* the batch handed to group_operations_by_space
    idx,          \* index of the transaction the loop is about to visit
    errors,       \* the errors pushed so far
    personal_transactions,  \* the transactions without a space, in order
    space_group,  \* SpaceID -> the transactions of that space, in order
    grouped,      \* the returned map Option<SpaceID> -> Dag, once built
    \* ---- encryption (impl Encryptable for Operation, and for Crdt) ----
    plain,        \* the Operation (or Crdt) given to encrypt
    key,          \* the key it is encrypted under
    sealed_op,    \* the OperationEncrypted (or CrdtEncrypted), once produced (and as
                  \* later received)
    decrypted,    \* the result of decrypt, once called
    decrypt_key,  \* the key decrypt was called with
    full_context, \* the result of get_full_context, once called
    context_key   \* the key get_full_context was called with

engine_vars == <<state, pc, operation, before, result, nops>>

router_vars ==
    <<transactions, idx, errors, personal_transactions, space_group, grouped>>

crypto_vars ==
    <<plain, key, sealed_op, decrypted, decrypt_key, full_context, context_key>>

vars == <<engine_vars, router_vars, crypto_vars>>

-----------------------------------------------------------------------------
(* Option<T> *)

None == <<>>

Some(x) == <<x>>

IsSome(o) == o # None

Unwrap(o) == o[1]

Opt(S) == {None} \cup {Some(x) : x \in S}

-----------------------------------------------------------------------------
(* HashMap<K, V> *)

EmptyMap == <<>>

MapInsert(m, k, v) == [x \in (DOMAIN m) \cup {k} |-> IF x = k THEN v ELSE m[x]]

MapRemove(m, k) == [x \in (DOMAIN m) \ {k} |-> m[x]]

-----------------------------------------------------------------------------
(* Bounds of the model: how many ids of each kind the inputs are drawn from *)
(* and how many operations one fold applies.                                *)

NumSpaces == 2

NumFiles == 2

NumNotes == 1

NumSections == 2

MaxOps == 3

SpaceIDs == 1..NumSpaces

FileIDs == 1..NumFiles

FileChunkIDs == {1}

NoteIDs == 1..NumNotes

SectionIDs == 1..NumSections

PageIDs == {1}

MemberIDs == {1}

Names == {"a", "b"}

-----------------------------------------------------------------------------
(* Domain entities (models/file.rs, note.rs, page.rs, space.rs, user.rs)    *)

File(id, space_id, name) ==
    [id |-> id, space_id |-> space_id, name |-> name, ty |-> None, num_chunks |-> 1]

FileChunk(id, file_id) ==
    [id |-> id, file_id |-> file_id, hash |-> "h", index |-> 0]

Paragraph(text) == [kind |-> "Paragraph", text |-> text]

Heading1(text) == [kind |-> "Heading1", text |-> text]

NoteBody(sections, order) == [sections |-> sections, order |-> order]

Note(id, space_id, title, body) ==
    [id |-> id, space_id |-> space_id, title |-> title, body |-> body, tags |-> <<>>]

Page(id, space_id, title) ==
    [id |-> id, space_id |-> space_id, title |-> title,
     slice |-> [kind |-> "Manual", notes |-> <<>>], view |-> "Grid"]

Member(id, space_id, role) ==
    [id |-> id, space_id |-> space_id, user_id |-> "u", role |-> role]

Space(id, title) ==
    [id |-> id, members |-> <<>>, title |-> title, color |-> None]

UserSettings(default_space) == [default_space |-> default_space]

\* the records the inputs are drawn from
Files == {File(i, 1, n) : i \in FileIDs, n \in Names}

FileChunks == {FileChunk(c, f) : c \in FileChunkIDs, f \in FileIDs}

Sections == {Paragraph("hi"), Heading1("Title")}

\* note bodies in which order's element set equals sections' key set
ConsistentBodies ==
    {NoteBody(EmptyMap, <<>>), NoteBody(MapInsert(EmptyMap, 1, Paragraph("hi")), <<1>>)}

Notes == {Note(i, 1, None, b) : i \in NoteIDs, b \in ConsistentBodies}

Pages == {Page(i, 1, "a") : i \in PageIDs}

Spaces == {Space(i, "a") : i \in SpaceIDs}

Members == {Member(i, 1, "Member") : i \in MemberIDs}

Settings == {UserSettings(d) : d \in Opt(SpaceIDs)}

-----------------------------------------------------------------------------
(* OperationAction, OperationContext, Operation (models/operation.rs)       *)

OperationContext_new(space, chunk, file, note, page) ==
    [chunk |-> chunk, file |-> file, note |-> note, page |-> page, space |-> space]

Op(context, action) == [context |-> context, action |-> action]

\* A value of OperationAction is a record: `kind` names the variant, the other
\* fields hold its payload.

-----------------------------------------------------------------------------
(* The public constructors of Operation (operation.rs, impl Operation)      *)

file_set(space_id, file) ==
    Op(OperationContext_new(Some(space_id), None, Some(file.id), None, None),
       [kind |-> "FileSetV1", file |-> file])

file_set_chunk(space_id, file_id, chunk) ==
    Op(OperationContext_new(Some(space_id), Some(chunk.id), Some(file_id), None, None),
       [kind |-> "FileSetChunkV1", chunk |-> chunk])

file_set_name(space_id, file_id, name) ==
    Op(OperationContext_new(Some(space_id), None, Some(file_id), None, None),
       [kind |-> "FileSetNameV1", name |-> name])

\* a file_unset whose context does not name the file
file_unset_NoTarget(space_id, file_id) ==
    Op(OperationContext_new(Some(space_id), None, None, None, None),
       [kind |-> "FileUnsetV1"])

file_unset(space_id, file_id) ==
    Op(OperationContext_new(Some(space_id), None, Some(file_id), None, None),
       [kind |-> "FileUnsetV1"])

\* a note_set whose context does not name the note
note_set_NoTarget(space_id, note) ==
    Op(OperationContext_new(Some(space_id), None, None, None, None),
       [kind |-> "NoteSetV1", note |-> note])

note_set(space_id, note) ==
    Op(OperationContext_new(Some(space_id), None, None, Some(note.id), None),
       [kind |-> "NoteSetV1", note |-> note])

note_set_body_section(space_id, note_id, section_id, section, after) ==
    Op(OperationContext_new(Some(space_id), None, None, Some(note_id), None),
       [kind |-> "NoteSetBodySectionV1", section_id |-> section_id, section |-> section,
             after |-> after])

note_set_deleted(space_id, note_id, deleted) ==
    Op(OperationContext_new(Some(space_id), None, None, Some(note_id), None),
       [kind |-> "NoteSetDeletedV1", deleted |-> deleted])

note_set_tag(space_id, note_id, tag) ==
    Op(OperationContext_new(Some(space_id), None, None, Some(note_id), None),
       [kind |-> "NoteSetTagV1", tag |-> tag])

note_set_title(space_id, note_id, title) ==
    Op(OperationContext_new(Some(space_id), None, None, Some(note_id), None),
       [kind |-> "NoteSetTitleV1", title |-> title])

note_unset(space_id, note_id) ==
    Op(OperationContext_new(Some(space_id), None, None, Some(note_id), None),
       [kind |-> "NoteUnsetV1"])

note_unset_body_section(space_id, note_id, section_id) ==
    Op(OperationContext_new(Some(space_id), None, None, Some(note_id), None),
       [kind |-> "NoteUnsetBodySectionV1", section_id |-> section_id])

note_unset_tag(space_id, note_id, tag) ==
    Op(OperationContext_new(Some(space_id), None, None, Some(note_id), None),
       [kind |-> "NoteUnsetTagV1", tag |-> tag])

page_set(space_id, page) ==
    Op(OperationContext_new(Some(space_id), None, None, None, Some(page.id)),
       [kind |-> "PageSetV1", page |-> page])

page_set_deleted(space_id, page_id, deleted) ==
    Op(OperationContext_new(Some(space_id), None, None, None, Some(page_id)),
       [kind |-> "PageSetDeleted", deleted |-> deleted])

page_set_display(space_id, page_id, display) ==
    Op(OperationContext_new(Some(space_id), None, None, None, Some(page_id)),
       [kind |-> "PageSetDisplayV1", display |-> display])

page_set_slice(space_id, page_id, slice) ==
    Op(OperationContext_new(Some(space_id), None, None, None, Some(page_id)),
       [kind |-> "PageSetSliceV1", slice |-> slice])

page_set_title(space_id, page_id, title) ==
    Op(OperationContext_new(Some(space_id), None, None, None, Some(page_id)),
       [kind |-> "PageSetTitleV1", name |-> title])

page_unset(space_id, page_id) ==
    Op(OperationContext_new(Some(space_id), None, None, None, Some(page_id)),
       [kind |-> "PageUnsetV1"])

space_set(space) ==
    Op(OperationContext_new(Some(space.id), None, None, None, None),
          [kind |-> "SpaceSetV1", space |-> space])

space_set_color(space_id, color) ==
    Op(OperationContext_new(Some(space_id), None, None, None, None),
          [kind |-> "SpaceSetColorV1", color |-> color])

space_set_member(member) ==
    Op(OperationContext_new(Some(member.space_id), None, None, None, None),
       [kind |-> "SpaceSetMemberV1", member |-> member])

space_set_member_role(space_id, member_id, role) ==
    Op(OperationContext_new(Some(space_id), None, None, None, None),
       [kind |-> "SpaceSetMemberRoleV1", member_id |-> member_id, role |-> role])

space_set_title(space_id, title) ==
    Op(OperationContext_new(Some(space_id), None, None, None, None),
          [kind |-> "SpaceSetTitleV1", name |-> title])

space_unset(space_id) ==
    Op(OperationContext_new(Some(space_id), None, None, None, None), [kind |-> "SpaceUnsetV1"])

space_unset_member(space_id, member_id) ==
    Op(OperationContext_new(Some(space_id), None, None, None, None),
       [kind |-> "SpaceUnsetMemberV1", member_id |-> member_id])

user_set_settings(settings) ==
    Op(OperationContext_new(None, None, None, None, None), [kind |-> "UserSetSettingsV1",
          settings |-> settings])

user_set_settings_default_space(space_id) ==
    Op(OperationContext_new(None, None, None, None, None),
       [kind |-> "UserSetSettingsDefaultSpaceV1", default_space |-> space_id])

-----------------------------------------------------------------------------
(* The state engine (models/state.rs)                                       *)

\* State::new(): five empty maps and the default UserSettings
State_new ==
    [chunks |-> EmptyMap, files |-> EmptyMap, notes |-> EmptyMap, pages |-> EmptyMap,
     spaces |-> EmptyMap, user_settings |-> UserSettings(None)]

Ok(s) == [state |-> s, result |-> "Ok"]

OperationInvalid(s) == [state |-> s, result |-> "OperationInvalid"]

OperationMissingContext(s) == [state |-> s, result |-> "OperationMissingContext"]

\* a FileSetV1 branch that starts the file afresh, dropping the chunks it had
SetFile_DropsChunks(s, file) ==
    [s EXCEPT !.files = MapInsert(@, file.id, file),
              !.chunks = [c \in {x \in DOMAIN @ : @[x].file_id # file.id} |-> @[c]]]

\* the FileSetV1 branch: self.files_mut().insert(file.id().clone(), file)
SetFile(s, file) == [s EXCEPT !.files = MapInsert(@, file.id, file)]

\* a FileSetChunkV1 branch that also counts the chunk in its file
SetFileChunk_AlsoFile(s, chunk) ==
    [s EXCEPT !.chunks = MapInsert(@, chunk.id, chunk),
              !.files = MapInsert(@, chunk.file_id, File(chunk.file_id, 1, "a"))]

\* the FileSetChunkV1 branch
SetFileChunk(s, chunk) == [s EXCEPT !.chunks = MapInsert(@, chunk.id, chunk)]

\* a FileSetNameV1 branch that creates the file it does not find
SetFileName_Upsert(s, file_id, name) ==
    IF file_id \in DOMAIN s.files
        THEN [s EXCEPT !.files[file_id].name = name]
        ELSE [s EXCEPT !.files = MapInsert(@, file_id, File(file_id, 1, name))]

\* the FileSetNameV1 branch: *file.name_mut() = name, only if the file is present
SetFileName(s, file_id, name) ==
    IF file_id \in DOMAIN s.files
        THEN [s EXCEPT !.files[file_id].name = name]
        ELSE s

\* a FileUnsetV1 branch that also removes the chunks of the file
UnsetFile_WithChunks(s, file_id) ==
    [s EXCEPT !.files = MapRemove(@, file_id),
              !.chunks = [c \in {x \in DOMAIN @ : @[x].file_id # file_id} |-> @[c]]]

\* a FileUnsetV1 branch that forgets the removal
UnsetFile_Forgotten(s, file_id) == s

\* the FileUnsetV1 branch: self.files_mut().remove(file_id)
UnsetFile(s, file_id) == [s EXCEPT !.files = MapRemove(@, file_id)]

\* the NoteSetV1 branch
SetNote(s, note) == [s EXCEPT !.notes = MapInsert(@, note.id, note)]

\* a NoteSetBodySectionV1 branch that also records the note's space as the default
SetBodySection_AlsoSettings(s, note_id, section_id, section, after) ==
    IF note_id \in DOMAIN s.notes
        THEN [s EXCEPT !.notes[note_id].body.sections = MapInsert(@, section_id, section),
                       !.user_settings.default_space = Some(s.notes[note_id].space_id)]
        ELSE s

\* the NoteSetBodySectionV1 branch: the section is inserted into body.sections of
\* the note, if present; body.order is not touched and `after` is not read
SetBodySection(s, note_id, section_id, section, after) ==
    IF note_id \in DOMAIN s.notes
        THEN [s EXCEPT !.notes[note_id].body.sections = MapInsert(@, section_id, section)]
        ELSE s

\* the variants of the space-context match whose branch has an empty body
EmptyBranches ==
    {"NoteSetTagV1", "NoteSetTitleV1", "NoteUnsetV1", "NoteUnsetBodySectionV1",
     "NoteUnsetTagV1", "PageSetV1", "PageSetDisplayV1", "PageSetSliceV1",
     "PageSetTitleV1", "PageUnsetV1", "SpaceSetV1", "SpaceSetColorV1",
     "SpaceSetMemberV1", "SpaceSetMemberRoleV1", "SpaceSetTitleV1", "SpaceUnsetV1",
     "SpaceUnsetMemberV1"}

\* a space-context match whose FileSetV1 branch keys the record by the file id of
\* the context, when the context names one
ApplySpaceAction_KeyByContext(s, context, action) ==
    CASE action.kind = "FileSetV1" ->
            Ok(IF IsSome(context.file)
                   THEN [s EXCEPT !.files = MapInsert(@, Unwrap(context.file), action.file)]
                   ELSE SetFile(s, action.file))
      [] action.kind = "FileSetChunkV1" -> Ok(SetFileChunk(s, action.chunk))
      [] action.kind = "FileSetNameV1" ->
            IF ~IsSome(context.file) THEN OperationMissingContext(s)
            ELSE Ok(SetFileName(s, Unwrap(context.file), action.name))
      [] action.kind = "FileUnsetV1" ->
            IF ~IsSome(context.file) THEN OperationMissingContext(s)
            ELSE Ok(UnsetFile(s, Unwrap(context.file)))
      [] action.kind = "NoteSetV1" -> Ok(SetNote(s, action.note))
      [] action.kind = "NoteSetBodySectionV1" ->
            IF ~IsSome(context.note) THEN OperationMissingContext(s)
            ELSE Ok(SetBodySection(s, Unwrap(context.note), action.section_id,
                                   action.section, action.after))
      [] action.kind \in EmptyBranches -> Ok(s)
      [] OTHER -> OperationInvalid(s)

\* the match of the branch taken when the context has a space id
ApplySpaceAction(s, context, action) ==
    CASE action.kind = "FileSetV1" -> Ok(SetFile(s, action.file))
      [] action.kind = "FileSetChunkV1" -> Ok(SetFileChunk(s, action.chunk))
      [] action.kind = "FileSetNameV1" ->
            IF ~IsSome(context.file) THEN OperationMissingContext(s)
            ELSE Ok(SetFileName(s, Unwrap(context.file), action.name))
      [] action.kind = "FileUnsetV1" ->
            IF ~IsSome(context.file) THEN OperationMissingContext(s)
            ELSE Ok(UnsetFile(s, Unwrap(context.file)))
      [] action.kind = "NoteSetV1" -> Ok(SetNote(s, action.note))
      [] action.kind = "NoteSetBodySectionV1" ->
            IF ~IsSome(context.note) THEN OperationMissingContext(s)
            ELSE Ok(SetBodySection(s, Unwrap(context.note), action.section_id,
                                   action.section, action.after))
      [] action.kind \in EmptyBranches -> Ok(s)
      [] OTHER -> OperationInvalid(s)    \* "User operation in non-user context"

\* a user branch that keeps the old default space when handed None
ApplyUserAction_KeepsOnNone(s, action) ==
    CASE action.kind = "UserSetSettingsV1" ->
            Ok([s EXCEPT !.user_settings = action.settings])
      [] action.kind = "UserSetSettingsDefaultSpaceV1" ->
            Ok(IF IsSome(action.default_space)
                   THEN [s EXCEPT !.user_settings.default_space = action.default_space]
                   ELSE s)
      [] OTHER -> OperationInvalid(s)

\* the match of the branch taken when the context has no space id
ApplyUserAction(s, action) ==
    CASE action.kind = "UserSetSettingsV1" ->
            Ok([s EXCEPT !.user_settings = action.settings])
      [] action.kind = "UserSetSettingsDefaultSpaceV1" ->
            Ok([s EXCEPT !.user_settings.default_space = action.default_space])
      [] OTHER -> OperationInvalid(s)    \* "Non-user operation in user context"

UserActions == {"UserSetSettingsV1", "UserSetSettingsDefaultSpaceV1"}

\* a dispatch on the action alone, which never looks at the space context
apply_operation_ByAction(s, op) ==
    IF op.action.kind \notin UserActions
        THEN ApplySpaceAction(s, op.context, op.action)
        ELSE ApplyUserAction(s, op.action)

\* State::apply_operation: the new State and the Result
apply_operation(s, op) ==
    IF IsSome(op.context.space)
        THEN ApplySpaceAction(s, op.context, op.action)
        ELSE ApplyUserAction(s, op.action)

-----------------------------------------------------------------------------
(* The operations the fold is fed                                           *)

\* every OperationAction variant, with payloads drawn from the small sets above
Actions ==
    {[kind |-> "FileSetV1", file |-> f] : f \in Files}
    \cup {[kind |-> "FileSetChunkV1", chunk |-> c] : c \in FileChunks}
    \cup {[kind |-> "FileSetNameV1", name |-> n] : n \in Names}
    \cup {[kind |-> "FileUnsetV1"]}
    \cup {[kind |-> "NoteSetV1", note |-> n] : n \in Notes}
    \cup {[kind |-> "NoteSetBodySectionV1", section_id |-> i, section |-> sec,
          after |-> a] : i \in SectionIDs, sec \in Sections,
                                            a \in Opt(SectionIDs)}
    \cup {[kind |-> "NoteSetBodySectionIndentV1", section_id |-> i, indent |-> 1]
          : i \in SectionIDs}
    \cup {[kind |-> "NoteSetBodySectionOrderV1", section_id |-> i, after |-> None]
          : i \in SectionIDs}
    \cup {[kind |-> "NoteSetDeletedV1", deleted |-> b] : b \in BOOLEAN}
    \cup {[kind |-> "NoteSetTagV1", tag |-> "t"],
          [kind |-> "NoteUnsetTagV1", tag |-> "t"], [kind |-> "NoteUnsetV1"]}
    \cup {[kind |-> "NoteSetTitleV1", title |-> t] : t \in Opt({"a"})}
    \cup {[kind |-> "NoteUnsetBodySectionV1", section_id |-> i] : i \in SectionIDs}
    \cup {[kind |-> "PageSetV1", page |-> p] : p \in Pages}
    \cup {[kind |-> "PageSetDeleted", deleted |-> b] : b \in BOOLEAN}
    \cup {[kind |-> "PageSetDisplayV1", display |-> "List"],
          [kind |-> "PageSetSliceV1", slice |-> [kind |-> "Manual", notes |-> <<1>>]],
          [kind |-> "PageSetTitleV1", name |-> "b"], [kind |-> "PageUnsetV1"]}
    \cup {[kind |-> "SpaceSetV1", space |-> sp] : sp \in Spaces}
    \cup {[kind |-> "SpaceSetColorV1", color |-> Some("a")],
          [kind |-> "SpaceSetTitleV1", name |-> "b"], [kind |-> "SpaceUnsetV1"]}
    \cup {[kind |-> "SpaceSetMemberV1", member |-> m] : m \in Members}
    \cup {[kind |-> "SpaceSetMemberRoleV1", member_id |-> m, role |-> "Admin"]
          : m \in MemberIDs}
    \cup {[kind |-> "SpaceUnsetMemberV1", member_id |-> m] : m \in MemberIDs}
    \cup {[kind |-> "UserSetSettingsV1", settings |-> u] : u \in Settings}
    \cup {[kind |-> "UserSetSettingsDefaultSpaceV1", default_space |-> d] : d \in Opt(SpaceIDs)}

\* the operations the public constructors build
ConstructorOperations ==
    {file_set(sp, f) : sp \in SpaceIDs, f \in Files}
    \cup {file_set_chunk(1, c.file_id, c) : c \in FileChunks}
    \cup {file_set_name(1, f, n) : f \in FileIDs, n \in Names}
    \cup {file_unset(1, f) : f \in FileIDs}
    \cup {note_set(sp, n) : sp \in SpaceIDs, n \in Notes}
    \cup {note_set_body_section(1, n, a.section_id, a.section, a.after) :
            n \in NoteIDs, a \in {x \in Actions : x.kind = "NoteSetBodySectionV1"}}
    \cup {note_set_deleted(1, n, b) : n \in NoteIDs, b \in BOOLEAN}
    \cup {note_set_tag(1, n, "t") : n \in NoteIDs}
    \cup {note_set_title(1, n, t) : n \in NoteIDs, t \in Opt({"a"})}
    \cup {note_unset(1, n) : n \in NoteIDs}
    \cup {note_unset_body_section(1, n, i) : n \in NoteIDs, i \in SectionIDs}
    \cup {note_unset_tag(1, n, "t") : n \in NoteIDs}
    \cup {page_set(sp, p) : sp \in SpaceIDs, p \in Pages}
    \cup {page_set_deleted(1, p, b) : p \in PageIDs, b \in BOOLEAN}
    \cup {page_set_display(1, p, "List") : p \in PageIDs}
    \cup {page_set_slice(1, p, [kind |-> "Manual", notes |-> <<1>>]) : p \in PageIDs}
    \cup {page_set_title(1, p, "b") : p \in PageIDs}
    \cup {page_unset(1, p) : p \in PageIDs}
    \cup {space_set(sp) : sp \in Spaces}
    \cup {space_set_color(sp, Some("a")) : sp \in SpaceIDs}
    \cup {space_set_member(m) : m \in Members}
    \cup {space_set_member_role(1, m, "Admin") : m \in MemberIDs}
    \cup {space_set_title(sp, "b") : sp \in SpaceIDs}
    \cup {space_unset(sp) : sp \in SpaceIDs}
    \cup {space_unset_member(1, m) : m \in MemberIDs}
    \cup {user_set_settings(u) : u \in Settings}
    \cup {user_set_settings_default_space(d) : d \in Opt(SpaceIDs)}

\* the contexts Operation::decrypt can rebuild from the wire: any combination of
\* ids, whatever the action
WireContexts ==
    {OperationContext_new(sp, None, f, n, None) :
        sp \in Opt({1}), f \in Opt(FileIDs), n \in Opt(NoteIDs)}

WireOperations == {Op(c, a) : c \in WireContexts, a \in Actions}

Operations == ConstructorOperations \cup WireOperations

-----------------------------------------------------------------------------
(* The replay loop: a caller folds operations into the State it owns, one   *)
(* apply_operation call at a time                                           *)

NoOperation == [none |-> TRUE]

\* nothing has been encrypted
CryptoIdle ==
    /\ plain = NoOperation
    /\ key = "k1"
    /\ sealed_op = None
    /\ decrypted = None
    /\ decrypt_key = None
    /\ full_context = None
    /\ context_key = None

\* no batch has been handed to the router
NotGrouped == None

RouterIdle ==
    /\ transactions = <<>>
    /\ idx = 1
    /\ errors = <<>>
    /\ personal_transactions = <<>>
    /\ space_group = EmptyMap
    /\ grouped = NotGrouped

Init ==
    /\ state = State_new
    /\ pc = "fetch"
    /\ operation = NoOperation
    /\ before = State_new
    /\ result = "None"
    /\ nops = 0
    /\ RouterIdle
    /\ CryptoIdle

\* the caller takes the next operation of the sequence it replays
Fetch(op) ==
    /\ pc = "fetch"
    /\ nops < MaxOps
    /\ operation' = op
    /\ pc' = "apply"
    /\ UNCHANGED <<state, before, result, nops, router_vars, crypto_vars>>

\* State::apply_operation(&mut self, operation)
Apply ==
    /\ pc = "apply"
    /\ LET r == apply_operation(state, operation)
       IN  /\ state' = r.state
           /\ result' = r.result
    /\ before' = state
    /\ nops' = nops + 1
    /\ pc' = "applied"
    /\ UNCHANGED <<operation, router_vars, crypto_vars>>

\* the call has returned; the caller moves on to the next operation
Return ==
    /\ pc = "applied"
    /\ pc' = "fetch"
    /\ operation' = NoOperation
    /\ before' = State_new
    /\ result' = "None"
    /\ UNCHANGED <<state, nops, router_vars, crypto_vars>>

Next ==
    \/ \E op \in Operations : Fetch(op)
    \/ Apply
    \/ Return

Spec == Init /\ [][Next]_vars

-----------------------------------------------------------------------------
(* DER encoding (rasn::der::encode / decode), as tag-length-value trees.    *)
(* A primitive element is [tag, value], a constructed one [tag, items].     *)
(* Decoding returns [ok |-> TRUE, value |-> v] or [ok |-> FALSE].           *)

Universal(n) == [class |-> "universal", number |-> n]

Context(n) == [class |-> "context", number |-> n]

\* universal tags of the ASN.1 types the models use
BOOLEAN_TAG == Universal(1)

INTEGER_TAG == Universal(2)

UTF8_STRING_TAG == Universal(12)

SEQUENCE_TAG == Universal(16)

\* the tag of a CHOICE or collection type whose content the model does not open
OPAQUE_TAG == [class |-> "opaque", number |-> 0]

Primitive(tag, value) == [tag |-> tag, value |-> value]

Constructed(tag, items) == [tag |-> tag, items |-> items]

Decoded(v) == [ok |-> TRUE, value |-> v]

DecodeError == [ok |-> FALSE]

IsPrimitive(tlv) == "value" \in DOMAIN tlv

IsConstructed(tlv) == "items" \in DOMAIN tlv

\* Uuid as its 16 bytes, and back
UuidLen == 16

Uuid_as_bytes(id) == [i \in 1..UuidLen |-> IF i = UuidLen THEN id ELSE 0]

Uuid_from_bytes(bytes) == bytes[UuidLen]

\* impl Encode for ObjectID: the uuid's bytes as an octet string under ObjectID's
\* tag, UTF8_STRING
EncodeObjectID(id) == Primitive(UTF8_STRING_TAG, Uuid_as_bytes(id))

\* impl Decode for ObjectID: an octet string that must hold exactly 16 bytes
DecodeObjectID(tlv) ==
    IF IsPrimitive(tlv) /\ tlv.tag = UTF8_STRING_TAG /\ Len(tlv.value) = UuidLen
        THEN Decoded(Uuid_from_bytes(tlv.value))
        ELSE DecodeError

\* #[rasn(tag(explicit(n)))]: a constructed element wrapping the inner encoding
\* (nothing, for a None)
Explicit(n, inner) == Constructed(Context(n), inner)

\* a derived SEQUENCE whose k-th field has tag explicit(k-1): the fields that are
\* present, in order; `fields` is a sequence of Option<encoding>
EncodeStruct(fields) ==
    LET present == {k \in DOMAIN fields : IsSome(fields[k])}
        nth(j) == CHOOSE k \in present : Cardinality({x \in present : x < k}) = j - 1
    IN  Constructed(SEQUENCE_TAG,
                    [j \in 1..Cardinality(present) |-> Explicit(nth(j) - 1, fields[nth(j)])])

\* the elements of a derived SEQUENCE of n fields: each element is an explicit
\* wrapper of one of the field tags around one encoding, in ascending tag order
WellFormedStruct(tlv, n) ==
    /\ IsConstructed(tlv)
    /\ tlv.tag = SEQUENCE_TAG
    /\ \A j \in DOMAIN tlv.items :
          /\ IsConstructed(tlv.items[j])
          /\ tlv.items[j].tag.class = "context"
          /\ tlv.items[j].tag.number \in 0..(n - 1)
          /\ Len(tlv.items[j].items) = 1
    /\ \A j, k \in DOMAIN tlv.items :
          j < k => tlv.items[j].tag.number < tlv.items[k].tag.number

\* the encoding found under tag explicit(k) of a well-formed struct, if any
StructField(tlv, k) ==
    LET at == {j \in DOMAIN tlv.items : tlv.items[j].tag.number = k}
    IN  IF at = {} THEN None ELSE Some(tlv.items[CHOOSE j \in at : TRUE].items[1])

NULL_TAG == Universal(5)

\* a field of a derived SEQUENCE, or the payload of a CHOICE variant: its name in
\* the model's record, the type it is encoded as, and whether it is an Option
Field(name, type, optional) == [name |-> name, type |-> type, optional |-> optional]

\* the encoding of one value: "id" is an ObjectID newtype, "string", "int" and
\* "bool" the ASN.1 primitives, "opaque" a CHOICE or collection the model keeps whole
TypeTag(type) ==
    CASE type = "id" -> UTF8_STRING_TAG
      [] type = "string" -> UTF8_STRING_TAG
      [] type = "int" -> INTEGER_TAG
      [] type = "bool" -> BOOLEAN_TAG
      [] type = "opaque" -> OPAQUE_TAG

EncodeValue(type, v) ==
    IF type = "id" THEN EncodeObjectID(v) ELSE Primitive(TypeTag(type), v)

DecodeValue(type, tlv) ==
    IF type = "id" THEN DecodeObjectID(tlv)
    ELSE IF IsPrimitive(tlv) /\ tlv.tag = TypeTag(type) THEN Decoded(tlv.value)
    ELSE DecodeError

\* #[derive(Encode)] on a struct: field k under tag explicit(k-1), None omitted
EncodeRecord(schema, rec) ==
    EncodeStruct([k \in DOMAIN schema |->
        IF schema[k].optional
            THEN IF IsSome(rec[schema[k].name])
                     THEN Some(EncodeValue(schema[k].type, Unwrap(rec[schema[k].name])))
                     ELSE None
            ELSE Some(EncodeValue(schema[k].type, rec[schema[k].name]))])

\* #[derive(Decode)] on a struct
DecodeRecord(schema, tlv) ==
    IF /\ WellFormedStruct(tlv, Len(schema))
       /\ \A k \in DOMAIN schema :
             LET f == StructField(tlv, k - 1)
             IN  IF IsSome(f) THEN DecodeValue(schema[k].type, Unwrap(f)).ok
                              ELSE schema[k].optional
    THEN Decoded([n \in {schema[k].name : k \in DOMAIN schema} |->
            LET k == CHOOSE j \in DOMAIN schema : schema[j].name = n
                f == StructField(tlv, k - 1)
            IN  IF schema[k].optional
                    THEN IF IsSome(f)
                             THEN Some(DecodeValue(schema[k].type, Unwrap(f)).value)
                             ELSE None
                    ELSE DecodeValue(schema[k].type, Unwrap(f)).value])
    ELSE DecodeError

\* the derived schema of each struct: its fields in declaration order
StructSchema(struct) ==
    CASE struct = "OperationContext" ->
            <<Field("chunk", "id", TRUE),
              Field("file", "id", TRUE),
              Field("note", "id", TRUE),
              Field("page", "id", TRUE),
              Field("space", "id", TRUE)>>
      [] struct = "CrdtContext" ->
            <<Field("is_checkpoint", "bool", FALSE),
              Field("file", "id", TRUE),
              Field("note", "id", TRUE),
              Field("page", "id", TRUE),
              Field("space", "id", TRUE)>>
      [] struct = "File" ->
            <<Field("id", "id", FALSE),
              Field("space_id", "id", FALSE),
              Field("name", "string", FALSE),
              Field("ty", "string", TRUE),
              Field("num_chunks", "int", FALSE)>>
      [] struct = "FileChunk" ->
            <<Field("id", "id", FALSE),
              Field("file_id", "id", FALSE),
              Field("hash", "opaque", FALSE),
              Field("index", "int", FALSE)>>
      [] struct = "Note" ->
            <<Field("id", "id", FALSE),
              Field("space_id", "id", FALSE),
              Field("title", "string", TRUE),
              Field("body", "opaque", FALSE),
              Field("tags", "opaque", FALSE)>>
      [] struct = "Page" ->
            <<Field("id", "id", FALSE),
              Field("space_id", "id", FALSE),
              Field("title", "string", FALSE),
              Field("slice", "opaque", FALSE),
              Field("view", "opaque", FALSE)>>
      [] struct = "Space" ->
            <<Field("id", "id", FALSE),
              Field("members", "opaque", FALSE),
              Field("title", "string", FALSE),
              Field("color", "string", TRUE)>>
      [] struct = "Member" ->
            <<Field("id", "id", FALSE),
              Field("space_id", "id", FALSE),
              Field("user_id", "opaque", FALSE),
              Field("role", "opaque", FALSE)>>
      [] struct = "UserSettings" ->
            <<Field("default_space", "id", TRUE)>>

NoSchema == <<>>

\* a variant of OperationAction: its rasn tag (None where the variant carries no
\* #[rasn(tag(...))] attribute), and its payload: "unit", one "value", one "option",
\* one "record" (a struct, under `field`) or a "struct" variant with named fields
Variant(kind, tag, shape, field, type, schema) ==
    [kind |-> kind, tag |-> tag, shape |-> shape, field |-> field, type |-> type,
     schema |-> schema]

\* enum OperationAction, in declaration order
OperationActionVariants ==
    <<Variant("FileSetV1", Some(0), "record", "file", "", StructSchema("File")),
      Variant("FileSetChunkV1", Some(1), "record", "chunk", "", StructSchema("FileChunk")),
      Variant("FileSetNameV1", Some(2), "value", "name", "string", NoSchema),
      Variant("FileUnsetV1", Some(3), "unit", "", "", NoSchema),
      Variant("NoteSetV1", Some(4), "record", "note", "", StructSchema("Note")),
      Variant("NoteSetBodySectionV1", Some(5), "struct", "", "",
              <<Field("section_id", "id", FALSE), Field("section", "opaque", FALSE),
                Field("after", "id", TRUE)>>),
      Variant("NoteSetBodySectionIndentV1", Some(6), "struct", "", "",
              <<Field("section_id", "id", FALSE), Field("indent", "int", FALSE)>>),
      Variant("NoteSetBodySectionOrderV1", Some(7), "struct", "", "",
              <<Field("section_id", "id", FALSE), Field("after", "id", TRUE)>>),
      Variant("NoteSetDeletedV1", None, "value", "deleted", "bool", NoSchema),
      Variant("NoteSetTagV1", Some(8), "value", "tag", "string", NoSchema),
      Variant("NoteSetTitleV1", Some(9), "option", "title", "string", NoSchema),
      Variant("NoteUnsetV1", Some(10), "unit", "", "", NoSchema),
      Variant("NoteUnsetBodySectionV1", Some(11), "value", "section_id", "id", NoSchema),
      Variant("NoteUnsetTagV1", Some(12), "value", "tag", "string", NoSchema),
      Variant("PageSetV1", Some(13), "record", "page", "", StructSchema("Page")),
      Variant("PageSetDeleted", None, "value", "deleted", "bool", NoSchema),
      Variant("PageSetDisplayV1", Some(14), "value", "display", "opaque", NoSchema),
      Variant("PageSetSliceV1", Some(15), "value", "slice", "opaque", NoSchema),
      Variant("PageSetTitleV1", Some(16), "value", "name", "string", NoSchema),
      Variant("PageUnsetV1", Some(17), "unit", "", "", NoSchema),
      Variant("SpaceSetV1", Some(18), "record", "space", "", StructSchema("Space")),
      Variant("SpaceSetColorV1", Some(19), "option", "color", "string", NoSchema),
      Variant("SpaceSetMemberV1", Some(20), "record", "member", "", StructSchema("Member")),
      Variant("SpaceSetMemberRoleV1", Some(21), "struct", "", "",
              <<Field("member_id", "id", FALSE), Field("role", "opaque", FALSE)>>),
      Variant("SpaceSetTitleV1", Some(22), "value", "name", "string", NoSchema),
      Variant("SpaceUnsetV1", Some(23), "unit", "", "", NoSchema),
      Variant("SpaceUnsetMemberV1", Some(24), "value", "member_id", "id", NoSchema),
      Variant("UserSetSettingsV1", Some(25), "record", "settings", "",
            StructSchema("UserSettings")),
      Variant("UserSetSettingsDefaultSpaceV1", Some(26), "option", "default_space", "id",
              NoSchema)>>

VariantOf(kind) ==
    OperationActionVariants[CHOOSE i \in DOMAIN OperationActionVariants :
                                OperationActionVariants[i].kind = kind]

\* the tag a variant is written under: its explicit tag, or, without a tag
\* attribute, the tag of the type it wraps
WireTag(v) == IF IsSome(v.tag) THEN Context(Unwrap(v.tag)) ELSE TypeTag(v.type)

\* the encoding of a variant's payload: what an explicit wrapper holds
EncodePayload(v, action) ==
    CASE v.shape = "unit" -> <<Primitive(NULL_TAG, <<>>)>>
      [] v.shape = "value" -> <<EncodeValue(v.type, action[v.field])>>
      [] v.shape = "option" ->
            IF IsSome(action[v.field])
                THEN <<EncodeValue(v.type, Unwrap(action[v.field]))>>
                ELSE <<>>
      [] v.shape = "record" -> <<EncodeRecord(v.schema, action[v.field])>>
      [] v.shape = "struct" -> <<EncodeRecord(v.schema, action)>>

\* rasn::der::encode(&action): the CHOICE is written as its variant
EncodeAction(action) ==
    LET v == VariantOf(action.kind)
    IN  IF IsSome(v.tag) THEN Explicit(Unwrap(v.tag), EncodePayload(v, action))
                         ELSE EncodePayload(v, action)[1]

DecodePayload(v, items) ==
    CASE v.shape = "unit" ->
            IF Len(items) = 1 /\ IsPrimitive(items[1]) /\ items[1].tag = NULL_TAG
                THEN Decoded([kind |-> v.kind]) ELSE DecodeError
      [] v.shape = "value" ->
            IF Len(items) = 1 /\ DecodeValue(v.type, items[1]).ok
                THEN Decoded([kind |-> v.kind] @@ (v.field :> DecodeValue(v.type,
                      items[1]).value))
                ELSE DecodeError
      [] v.shape = "option" ->
            IF Len(items) = 0 THEN Decoded([kind |-> v.kind] @@ (v.field :> None))
            ELSE IF Len(items) = 1 /\ DecodeValue(v.type, items[1]).ok
                THEN Decoded([kind |-> v.kind]
                             @@ (v.field :> Some(DecodeValue(v.type, items[1]).value)))
                ELSE DecodeError
      [] v.shape = "record" ->
            IF Len(items) = 1 /\ DecodeRecord(v.schema, items[1]).ok
                THEN Decoded([kind |-> v.kind]
                             @@ (v.field :> DecodeRecord(v.schema, items[1]).value))
                ELSE DecodeError
      [] v.shape = "struct" ->
            IF Len(items) = 1 /\ DecodeRecord(v.schema, items[1]).ok
                THEN Decoded([kind |-> v.kind] @@ DecodeRecord(v.schema, items[1]).value)
                ELSE DecodeError

\* rasn::der::decode::<OperationAction>: the derived decoder tries the variants in
\* declaration order and takes the first whose tag is the one read
DecodeAction(tlv) ==
    LET matching == {i \in DOMAIN OperationActionVariants :
                        WireTag(OperationActionVariants[i]) = tlv.tag}
    IN  IF matching = {} THEN DecodeError
        ELSE LET v == OperationActionVariants[
                         CHOOSE i \in matching : \A j \in matching : i <= j]
             IN  IF IsSome(v.tag)
                     THEN IF IsConstructed(tlv) THEN DecodePayload(v, tlv.items)
                                                ELSE DecodeError
                     ELSE DecodePayload(v, <<tlv>>)

EncodeContext(context) == EncodeRecord(StructSchema("OperationContext"), context)

DecodeContext(tlv) == DecodeRecord(StructSchema("OperationContext"), tlv)

-----------------------------------------------------------------------------
(* Sealing (stamp_core::crypto::seal) and impl Encryptable for Operation    *)

SecretKeys == {"k1", "k2"}

\* seal::seal(secret_key, plaintext): an authenticated ciphertext
seal(secret_key, plaintext) == [sealed_with |-> secret_key, plaintext |-> plaintext]

\* a ciphertext damaged in transit or storage: it authenticates under no key
Damaged(sealed) == [sealed EXCEPT !.sealed_with = "damaged"]

Opened(plaintext) == [ok |-> TRUE, value |-> plaintext]

Failed(error) == [ok |-> FALSE, error |-> error]

\* seal::open(secret_key, sealed): the plaintext, or the primitive's error, which `?`
\* passes on as Error::Stamp
open(secret_key, sealed) ==
    IF sealed.sealed_with = secret_key THEN Opened(sealed.plaintext)
                                       ELSE Failed("Stamp")

OperationEncrypted(context, ciphertext_context, ciphertext_action) ==
    [context |-> context, ciphertext_context |-> ciphertext_context,
     ciphertext_action |-> ciphertext_action]

\* an encrypt that seals the whole context, space id included
encrypt_SpaceSealed(op, secret_key) ==
    OperationEncrypted(op.context.space,
                       seal(secret_key, EncodeContext(op.context)),
                       seal(secret_key, EncodeAction(op.action)))

\* Operation::encrypt(self, secret_key)
encrypt(op, secret_key) ==
    LET context_no_space ==
            OperationContext_new(None, op.context.chunk, op.context.file,
                                 op.context.note, op.context.page)
        serialized_context == EncodeContext(context_no_space)
        serialized_action == EncodeAction(op.action)
    IN  OperationEncrypted(op.context.space,
                           seal(secret_key, serialized_context),
                           seal(secret_key, serialized_action))

\* a decrypt that reports every failure as the sealing primitive's
decrypt_DecodeErrorAsStamp(secret_key, encrypted) ==
    LET opened_context == open(secret_key, encrypted.ciphertext_context)
        opened_action == open(secret_key, encrypted.ciphertext_action)
    IN  IF ~opened_context.ok \/ ~opened_action.ok THEN Failed("Stamp")
        ELSE LET c == DecodeContext(opened_context.value)
                 a == DecodeAction(opened_action.value)
             IN  IF ~c.ok \/ ~a.ok THEN Failed("Stamp")
                 ELSE Opened(Op(OperationContext_new(encrypted.context, c.value.chunk,
                                                     c.value.file, c.value.note,
                                                     c.value.page),
                                a.value))

\* a decrypt that reports a ciphertext that does not open as a decoding failure
decrypt_OpenErrorRemapped(secret_key, encrypted) ==
    LET opened_context == open(secret_key, encrypted.ciphertext_context)
        opened_action == open(secret_key, encrypted.ciphertext_action)
    IN  IF ~opened_context.ok \/ ~opened_action.ok THEN Failed("ASNDeserialize")
        ELSE LET c == DecodeContext(opened_context.value)
                 a == DecodeAction(opened_action.value)
             IN  IF ~c.ok \/ ~a.ok THEN Failed("ASNDeserialize")
                 ELSE Opened(Op(OperationContext_new(encrypted.context, c.value.chunk,
                                                     c.value.file, c.value.note,
                                                     c.value.page),
                                a.value))

\* a decrypt that prefers a space id it finds in the sealed inner context
decrypt_InnerSpaceWins(secret_key, encrypted) ==
    LET opened_context == open(secret_key, encrypted.ciphertext_context)
        opened_action == open(secret_key, encrypted.ciphertext_action)
    IN  IF ~opened_context.ok THEN Failed("Stamp")
        ELSE IF ~opened_action.ok THEN Failed("Stamp")
        ELSE LET c == DecodeContext(opened_context.value)
                 a == DecodeAction(opened_action.value)
             IN  IF ~c.ok THEN Failed("ASNDeserialize")
                 ELSE IF ~a.ok THEN Failed("ASNDeserialize")
                 ELSE Opened(Op(OperationContext_new(
                                    IF IsSome(c.value.space) THEN c.value.space
                                                             ELSE encrypted.context,
                                    c.value.chunk, c.value.file, c.value.note,
                                    c.value.page),
                                a.value))

\* Operation::decrypt(secret_key, encrypted)
decrypt(secret_key, encrypted) ==
    LET opened_context == open(secret_key, encrypted.ciphertext_context)
        opened_action == open(secret_key, encrypted.ciphertext_action)
    IN  IF ~opened_context.ok THEN Failed("Stamp")
        ELSE IF ~opened_action.ok THEN Failed("Stamp")
        ELSE LET c == DecodeContext(opened_context.value)
                 a == DecodeAction(opened_action.value)
             IN  IF ~c.ok THEN Failed("ASNDeserialize")
                 ELSE IF ~a.ok THEN Failed("ASNDeserialize")
                 ELSE Opened(Op(OperationContext_new(encrypted.context, c.value.chunk,
                                                     c.value.file, c.value.note,
                                                     c.value.page),
                                a.value))

\* a get_full_context that opens the action ciphertext as well
get_full_context_OpensAction(encrypted, secret_key) ==
    LET opened_context == open(secret_key, encrypted.ciphertext_context)
        opened_action == open(secret_key, encrypted.ciphertext_action)
    IN  IF ~opened_context.ok \/ ~opened_action.ok THEN Failed("Stamp")
        ELSE LET c == DecodeContext(opened_context.value)
             IN  IF ~c.ok THEN Failed("ASNDeserialize")
                 ELSE Opened(OperationContext_new(encrypted.context, c.value.chunk,
                                                  c.value.file, c.value.note,
                                                  c.value.page))

\* OperationEncrypted::get_full_context(&self, secret_key)
get_full_context(encrypted, secret_key) ==
    LET opened_context == open(secret_key, encrypted.ciphertext_context)
    IN  IF ~opened_context.ok THEN Failed("Stamp")
        ELSE LET c == DecodeContext(opened_context.value)
             IN  IF ~c.ok THEN Failed("ASNDeserialize")
                 ELSE Opened(OperationContext_new(encrypted.context, c.value.chunk,
                                                  c.value.file, c.value.note,
                                                  c.value.page))

-----------------------------------------------------------------------------
(* The transaction router (operation.rs, group_operations_by_space)         *)

MaxBatch == 3

\* the type tag of an operation transaction, b"turtl/op/v1"
OperationType == "turtl/op/v1"

\* TransactionBody::ExtV1 { creator, ty, context, payload, .. }
ExtV1(ty, context, payload) ==
    [variant |-> "ExtV1", creator |-> "c", ty |-> ty, context |-> context,
     payload |-> payload]

\* any other variant of TransactionBody
OtherBody == [variant |-> "PublishV1"]

\* what a `space` entry of the routing map can hold: the encoding of a SpaceID, or
\* an octet string of the wrong length
SpaceEntries ==
    {EncodeObjectID(sp) : sp \in SpaceIDs} \cup {Primitive(UTF8_STRING_TAG, <<0, 1>>)}

\* no routing map, a map without a `space` entry, a map with one
RoutingContexts ==
    {None, Some([k \in {"note"} |-> EncodeObjectID(1)])}
    \cup {Some([k \in {"space"} |-> e]) : e \in SpaceEntries}

Payloads == {"p"}

Bodies ==
    {OtherBody}
    \cup {ExtV1(ty, c, p) : ty \in {None, Some(OperationType), Some("stamp/other")},
                            c \in RoutingContexts, p \in Payloads}

\* a batch: the transaction at position i has id i
Batches ==
    UNION {[1..n -> Bodies] : n \in 0..MaxBatch}

Transaction(id, body) == [id |-> id, body |-> body]

TransactionWrongType(id) == [error |-> "TransactionWrongType", id |-> id]

TransactionWrongVariant(id) == [error |-> "TransactionWrongVariant", id |-> id]

TransactionDeserializationError(id) ==
    [error |-> "TransactionDeserializationError", id |-> id]

\* context.as_ref().and_then(|map| map.get(b"space"))
space_id_ser(context) ==
    IF IsSome(context) /\ "space" \in DOMAIN Unwrap(context)
        THEN Some(Unwrap(context)["space"])
        ELSE None

\* a push that starts a fresh list for the space every time
PushToSpace_Overwrite(group, space_id, id) == MapInsert(group, space_id, <<id>>)

\* space_group.entry(space_id).or_insert(Vec::new()).push(trans)
PushToSpace(group, space_id, id) ==
    IF space_id \in DOMAIN group
        THEN [group EXCEPT ![space_id] = Append(@, id)]
        ELSE MapInsert(group, space_id, <<id>>)

\* a loop body whose error arms lack their `continue`: a rejected ExtV1
\* transaction is also filed as personal
GroupTransaction_NoContinue(acc, trans) ==
    IF trans.body.variant # "ExtV1" THEN
        [acc EXCEPT !.errors = Append(@, TransactionWrongVariant(trans.id))]
    ELSE IF trans.body.ty # Some(OperationType) THEN
        [acc EXCEPT !.errors = Append(@, TransactionWrongType(trans.id)),
                    !.personal_transactions = Append(@, trans.id)]
    ELSE
        LET ser == space_id_ser(trans.body.context) IN
        IF IsSome(ser) /\ ~DecodeObjectID(Unwrap(ser)).ok THEN
            [acc EXCEPT !.errors = Append(@, TransactionDeserializationError(trans.id)),
                        !.personal_transactions = Append(@, trans.id)]
        ELSE IF IsSome(ser) THEN
            [acc EXCEPT !.space_group =
                PushToSpace(@, DecodeObjectID(Unwrap(ser)).value, trans.id)]
        ELSE
            [acc EXCEPT !.personal_transactions = Append(@, trans.id)]

\* a loop body without the type check
GroupTransaction_TypeUnchecked(acc, trans) ==
    IF trans.body.variant = "ExtV1" THEN
        LET ser == space_id_ser(trans.body.context) IN
        IF IsSome(ser) /\ ~DecodeObjectID(Unwrap(ser)).ok THEN
            [acc EXCEPT !.errors = Append(@, TransactionDeserializationError(trans.id))]
        ELSE IF IsSome(ser) THEN
            [acc EXCEPT !.space_group =
                PushToSpace(@, DecodeObjectID(Unwrap(ser)).value, trans.id)]
        ELSE
            [acc EXCEPT !.personal_transactions = Append(@, trans.id)]
    ELSE
        [acc EXCEPT !.errors = Append(@, TransactionWrongVariant(trans.id))]

\* a loop body that drops a transaction of another variant without an error
GroupTransaction_VariantSilent(acc, trans) ==
    IF trans.body.variant = "ExtV1" THEN
        IF trans.body.ty # Some(OperationType) THEN
            [acc EXCEPT !.errors = Append(@, TransactionWrongType(trans.id))]
        ELSE
            LET ser == space_id_ser(trans.body.context) IN
            IF IsSome(ser) /\ ~DecodeObjectID(Unwrap(ser)).ok THEN
                [acc EXCEPT !.errors =
                    Append(@, TransactionDeserializationError(trans.id))]
            ELSE IF IsSome(ser) THEN
                [acc EXCEPT !.space_group =
                    PushToSpace(@, DecodeObjectID(Unwrap(ser)).value, trans.id)]
            ELSE
                [acc EXCEPT !.personal_transactions = Append(@, trans.id)]
    ELSE
        acc

\* a loop body that treats a `space` entry it cannot decode as no entry
GroupTransaction_DecodeLenient(acc, trans) ==
    IF trans.body.variant = "ExtV1" THEN
        IF trans.body.ty # Some(OperationType) THEN
            [acc EXCEPT !.errors = Append(@, TransactionWrongType(trans.id))]
        ELSE
            LET ser == space_id_ser(trans.body.context) IN
            IF IsSome(ser) /\ DecodeObjectID(Unwrap(ser)).ok THEN
                [acc EXCEPT !.space_group =
                    PushToSpace(@, DecodeObjectID(Unwrap(ser)).value, trans.id)]
            ELSE
                [acc EXCEPT !.personal_transactions = Append(@, trans.id)]
    ELSE
        [acc EXCEPT !.errors = Append(@, TransactionWrongVariant(trans.id))]

\* a loop body that routes on the payload: only the payload "p" is accepted
GroupTransaction_ReadsPayload(acc, trans) ==
    IF trans.body.variant = "ExtV1" THEN
        IF trans.body.ty # Some(OperationType) \/ trans.body.payload # "p" THEN
            [acc EXCEPT !.errors = Append(@, TransactionWrongType(trans.id))]
        ELSE
            LET ser == space_id_ser(trans.body.context) IN
            IF IsSome(ser) /\ ~DecodeObjectID(Unwrap(ser)).ok THEN
                [acc EXCEPT !.errors =
                    Append(@, TransactionDeserializationError(trans.id))]
            ELSE IF IsSome(ser) THEN
                [acc EXCEPT !.space_group =
                    PushToSpace(@, DecodeObjectID(Unwrap(ser)).value, trans.id)]
            ELSE
                [acc EXCEPT !.personal_transactions = Append(@, trans.id)]
    ELSE
        [acc EXCEPT !.errors = Append(@, TransactionWrongVariant(trans.id))]

\* one iteration of the loop over the batch; acc holds errors,
\* personal_transactions and space_group
GroupTransaction(acc, trans) ==
    IF trans.body.variant = "ExtV1" THEN
        IF trans.body.ty # Some(OperationType) THEN
            [acc EXCEPT !.errors = Append(@, TransactionWrongType(trans.id))]
        ELSE
            LET ser == space_id_ser(trans.body.context) IN
            IF IsSome(ser) /\ ~DecodeObjectID(Unwrap(ser)).ok THEN
                [acc EXCEPT !.errors =
                    Append(@, TransactionDeserializationError(trans.id))]
            ELSE IF IsSome(ser) THEN
                [acc EXCEPT !.space_group =
                    PushToSpace(@, DecodeObjectID(Unwrap(ser)).value, trans.id)]
            ELSE
                [acc EXCEPT !.personal_transactions = Append(@, trans.id)]
    ELSE
        [acc EXCEPT !.errors = Append(@, TransactionWrongVariant(trans.id))]

\* Dag::from_transactions(&list): the graph over exactly the transactions given
Dag_from_transactions(list) == list

\* a returned map that has the personal entry only when a personal transaction
\* was filed
BuildResult_PersonalIfAny(personal, group) ==
    [k \in (IF personal = <<>> THEN {} ELSE {None}) \cup {Some(sp) : sp \in DOMAIN group} |->
        IF k = None THEN Dag_from_transactions(personal)
                    ELSE Dag_from_transactions(group[Unwrap(k)])]

\* the returned map: the personal entry under None, and one entry per space
BuildResult(personal, group) ==
    [k \in {None} \cup {Some(sp) : sp \in DOMAIN group} |->
        IF k = None THEN Dag_from_transactions(personal)
                    ELSE Dag_from_transactions(group[Unwrap(k)])]

\* the loop over a list of transactions, from the accumulators acc
RECURSIVE GroupAll(_, _)
GroupAll(acc, list) ==
    IF list = <<>> THEN acc
    ELSE GroupAll(GroupTransaction(acc, Head(list)), Tail(list))

\* group_operations_by_space(&transactions) as a function of the list: the
\* returned pair (result, errors)
group_operations_by_space(list) ==
    LET acc == GroupAll([errors |-> <<>>, personal_transactions |-> <<>>,
                         space_group |-> EmptyMap], list)
    IN  [result |-> BuildResult(acc.personal_transactions, acc.space_group),
         errors |-> acc.errors]

EngineIdle ==
    /\ state = State_new
    /\ pc = "fetch"
    /\ operation = NoOperation
    /\ before = State_new
    /\ result = "None"
    /\ nops = 0

\* group_operations_by_space is called with a batch
RouterInit ==
    /\ transactions \in Batches
    /\ idx = 1
    /\ errors = <<>>
    /\ personal_transactions = <<>>
    /\ space_group = EmptyMap
    /\ grouped = NotGrouped
    /\ EngineIdle
    /\ CryptoIdle

\* for trans in transactions { ... }
VisitTransaction ==
    /\ grouped = NotGrouped
    /\ idx <= Len(transactions)
    /\ LET acc == GroupTransaction(
                    [errors |-> errors,
                     personal_transactions |-> personal_transactions,
                     space_group |-> space_group],
                    Transaction(idx, transactions[idx]))
       IN  /\ errors' = acc.errors
           /\ personal_transactions' = acc.personal_transactions
           /\ space_group' = acc.space_group
    /\ idx' = idx + 1
    /\ UNCHANGED <<transactions, grouped, engine_vars, crypto_vars>>

\* after the loop: build the result map and return (result, errors)
ReturnGroups ==
    /\ grouped = NotGrouped
    /\ idx > Len(transactions)
    /\ grouped' = Some(BuildResult(personal_transactions, space_group))
    /\ UNCHANGED <<transactions, idx, errors, personal_transactions, space_group,
                   engine_vars, crypto_vars>>

RouterNext == VisitTransaction \/ ReturnGroups

SpecRouter == RouterInit /\ [][RouterNext]_vars


-----------------------------------------------------------------------------
(* Encrypting an operation, carrying it, and opening it again               *)

\* every combination of the five optional ids
AllContexts ==
    {OperationContext_new(sp, c, f, n, p) :
        sp \in Opt(SpaceIDs), c \in Opt(FileChunkIDs), f \in Opt({1}),
        n \in Opt({1}), p \in Opt(PageIDs)}

\* the operations that are encrypted: every constructor's, and every context
EncryptableOperations ==
    ConstructorOperations \cup {Op(c, [kind |-> "FileUnsetV1"]) : c \in AllContexts}

\* plaintexts that open but are no encoding of an OperationContext or an
\* OperationAction: an unknown tag, an id of the wrong length
MalformedPlaintexts ==
    {Explicit(99, <<>>),
     EncodeStruct(<<None, Some(Primitive(UTF8_STRING_TAG, <<0, 1>>))>>)}

CryptoInit ==
    /\ plain \in EncryptableOperations
    /\ key \in SecretKeys
    /\ sealed_op = None
    /\ decrypted = None
    /\ decrypt_key = None
    /\ full_context = None
    /\ context_key = None
    /\ EngineIdle
    /\ RouterIdle

\* Operation::encrypt(plain, key)
Encrypt ==
    /\ sealed_op = None
    /\ sealed_op' = Some(encrypt(plain, key))
    /\ UNCHANGED <<plain, key, decrypted, decrypt_key, full_context, context_key,
                   engine_vars, router_vars>>

InTransit == IsSome(sealed_op) /\ decrypted = None /\ full_context = None

Carried(e) ==
    /\ sealed_op' = Some(e)
    /\ UNCHANGED <<plain, key, decrypted, decrypt_key, full_context, context_key,
                   engine_vars, router_vars>>

\* the action ciphertext no longer authenticates
DamageAction ==
    /\ InTransit
    /\ Unwrap(sealed_op).ciphertext_action = encrypt(plain, key).ciphertext_action
    /\ Carried([Unwrap(sealed_op) EXCEPT !.ciphertext_action = Damaged(@)])

\* the action ciphertext is a sealed plaintext that is no encoded OperationAction
MalformAction(k, bytes) ==
    /\ InTransit
    /\ Unwrap(sealed_op).ciphertext_action = encrypt(plain, key).ciphertext_action
    /\ Carried([Unwrap(sealed_op) EXCEPT !.ciphertext_action = seal(k, bytes)])

\* the inner-context ciphertext no longer authenticates
DamageContext ==
    /\ InTransit
    /\ Unwrap(sealed_op).ciphertext_context = encrypt(plain, key).ciphertext_context
    /\ Carried([Unwrap(sealed_op) EXCEPT !.ciphertext_context = Damaged(@)])

\* the inner-context ciphertext is a sealed plaintext that is no encoded context
MalformContext(k, bytes) ==
    /\ InTransit
    /\ Unwrap(sealed_op).ciphertext_context = encrypt(plain, key).ciphertext_context
    /\ Carried([Unwrap(sealed_op) EXCEPT !.ciphertext_context = seal(k, bytes)])

\* the inner-context ciphertext is the sealed encoding of the operation's context
\* with a space id in it
SealSpaceInside(k, sp) ==
    /\ InTransit
    /\ Unwrap(sealed_op).ciphertext_context = encrypt(plain, key).ciphertext_context
    /\ Carried([Unwrap(sealed_op) EXCEPT !.ciphertext_context =
                    seal(k, EncodeContext([plain.context EXCEPT !.space = Some(sp)]))])

\* the clear space id is rewritten
ReplaceSpace(sp) ==
    /\ InTransit
    /\ Unwrap(sealed_op).context = plain.context.space
    /\ sp # plain.context.space
    /\ Carried([Unwrap(sealed_op) EXCEPT !.context = sp])

\* Operation::decrypt(k, &sealed_op)
Decrypt(k) ==
    /\ IsSome(sealed_op)
    /\ decrypted = None
    /\ decrypted' = Some(decrypt(k, Unwrap(sealed_op)))
    /\ decrypt_key' = Some(k)
    /\ UNCHANGED <<plain, key, sealed_op, full_context, context_key,
                   engine_vars, router_vars>>

\* sealed_op.get_full_context(k)
GetFullContext(k) ==
    /\ IsSome(sealed_op)
    /\ full_context = None
    /\ full_context' = Some(get_full_context(Unwrap(sealed_op), k))
    /\ context_key' = Some(k)
    /\ UNCHANGED <<plain, key, sealed_op, decrypted, decrypt_key,
                   engine_vars, router_vars>>

CryptoNext ==
    \/ Encrypt
    \/ DamageAction
    \/ \E bytes \in MalformedPlaintexts : MalformAction(key, bytes)
    \/ DamageContext
    \/ \E bytes \in MalformedPlaintexts : MalformContext(key, bytes)
    \/ \E sp \in SpaceIDs : SealSpaceInside(key, sp)
    \/ \E sp \in Opt(SpaceIDs) : ReplaceSpace(sp)
    \/ \E k \in SecretKeys : Decrypt(k)
    \/ \E k \in SecretKeys : GetFullContext(k)

SpecCrypto == CryptoInit /\ [][CryptoNext]_vars


-----------------------------------------------------------------------------
(* models/crdt.rs: a Crdt, its context, and impl Encryptable for Crdt       *)

\* CrdtContext::new: is_checkpoint is false
CrdtContext_new(space, file, note, page) ==
    [is_checkpoint |-> FALSE, file |-> file, note |-> note, page |-> page,
     space |-> space]

\* CrdtContext::new_with_checkpoint
CrdtContext_new_with_checkpoint(is_checkpoint, space, file, note, page) ==
    [is_checkpoint |-> is_checkpoint, file |-> file, note |-> note, page |-> page,
     space |-> space]

\* enum CrdtAction, in declaration order: variant i has tag explicit(i - 1)
CrdtActionVariants == <<"Checkpoint", "File", "Note", "Page", "Space", "User">>

\* #[derive(Encode)] on CrdtAction: the inner value under the variant's tag
EncodeCrdtAction(action) ==
    LET i == CHOOSE j \in DOMAIN CrdtActionVariants : CrdtActionVariants[j] = action.kind
    IN  Explicit(i - 1, <<Primitive(OPAQUE_TAG, action.crdt)>>)

\* #[derive(Decode)] on CrdtAction
DecodeCrdtAction(tlv) ==
    IF /\ IsConstructed(tlv)
       /\ tlv.tag.class = "context"
       /\ tlv.tag.number + 1 \in DOMAIN CrdtActionVariants
       /\ Len(tlv.items) = 1
       /\ IsPrimitive(tlv.items[1])
       /\ tlv.items[1].tag = OPAQUE_TAG
    THEN Decoded([kind |-> CrdtActionVariants[tlv.tag.number + 1],
                  crdt |-> tlv.items[1].value])
    ELSE DecodeError

\* Crdt::encrypt(self, secret_key): a CrdtEncrypted
Crdt_encrypt(crdt, secret_key) ==
    LET c == crdt.context
        context_no_space ==
            CrdtContext_new_with_checkpoint(c.is_checkpoint, None, c.file, c.note, c.page)
        serialized_context == EncodeRecord(StructSchema("CrdtContext"), context_no_space)
        serialized_crdt == EncodeCrdtAction(crdt.action)
    IN  [context |-> c.space,
         ciphertext_context |-> seal(secret_key, serialized_context),
         ciphertext_crdt |-> seal(secret_key, serialized_crdt)]

\* Crdt::decrypt(encrypted, secret_key): the context is rebuilt by CrdtContext::new
\* from the clear space id and the file, note and page ids of the opened context
Crdt_decrypt(encrypted, secret_key) ==
    LET opened_context == open(secret_key, encrypted.ciphertext_context)
        opened_crdt == open(secret_key, encrypted.ciphertext_crdt)
    IN  IF ~opened_context.ok THEN Failed("Stamp")
        ELSE IF ~opened_crdt.ok THEN Failed("Stamp")
        ELSE LET c == DecodeRecord(StructSchema("CrdtContext"), opened_context.value)
                 a == DecodeCrdtAction(opened_crdt.value)
             IN  IF ~c.ok THEN Failed("ASNDeserialize")
                 ELSE IF ~a.ok THEN Failed("ASNDeserialize")
                 ELSE Opened([context |-> CrdtContext_new(encrypted.context, c.value.file,
                                                          c.value.note, c.value.page),
                              action |-> a.value])

\* CrdtEncrypted::get_full_context(&self, secret_key)
CrdtEncrypted_get_full_context(encrypted, secret_key) ==
    LET opened_context == open(secret_key, encrypted.ciphertext_context)
    IN  IF ~opened_context.ok THEN Failed("Stamp")
        ELSE LET c == DecodeRecord(StructSchema("CrdtContext"), opened_context.value)
             IN  IF ~c.ok THEN Failed("ASNDeserialize")
                 ELSE Opened(CrdtContext_new_with_checkpoint(
                                 c.value.is_checkpoint, encrypted.context, c.value.file,
                                 c.value.note, c.value.page))

\* the Crdts that are encrypted: every context a Crdt can hold, every variant of
\* CrdtAction
Crdts ==
    {[context |-> CrdtContext_new_with_checkpoint(b, sp, f, n, p),
      action |-> [kind |-> CrdtActionVariants[i], crdt |-> "body"]] :
        b \in BOOLEAN, sp \in Opt(SpaceIDs), f \in Opt({1}), n \in Opt({1}),
        p \in Opt({1}), i \in DOMAIN CrdtActionVariants}

CrdtInit ==
    /\ plain \in Crdts
    /\ key \in SecretKeys
    /\ sealed_op = None
    /\ decrypted = None
    /\ decrypt_key = None
    /\ full_context = None
    /\ context_key = None
    /\ EngineIdle
    /\ RouterIdle

\* plain.encrypt(key)
CrdtEncrypt ==
    /\ sealed_op = None
    /\ sealed_op' = Some(Crdt_encrypt(plain, key))
    /\ UNCHANGED <<plain, key, decrypted, decrypt_key, full_context, context_key,
                   engine_vars, router_vars>>

\* Crdt::decrypt(&sealed_op, k)
CrdtDecrypt(k) ==
    /\ IsSome(sealed_op)
    /\ decrypted = None
    /\ decrypted' = Some(Crdt_decrypt(Unwrap(sealed_op), k))
    /\ decrypt_key' = Some(k)
    /\ UNCHANGED <<plain, key, sealed_op, full_context, context_key,
                   engine_vars, router_vars>>

\* sealed_op.get_full_context(k)
CrdtGetFullContext(k) ==
    /\ IsSome(sealed_op)
    /\ full_context = None
    /\ full_context' = Some(CrdtEncrypted_get_full_context(Unwrap(sealed_op), k))
    /\ context_key' = Some(k)
    /\ UNCHANGED <<plain, key, sealed_op, decrypted, decrypt_key,
                   engine_vars, router_vars>>

CrdtNext ==
    \/ CrdtEncrypt
    \/ \E k \in SecretKeys : CrdtDecrypt(k)
    \/ \E k \in SecretKeys : CrdtGetFullContext(k)

SpecCrdt == CrdtInit /\ [][CrdtNext]_vars

-----------------------------------------------------------------------------
(* Claims about the state engine                                            *)

Applied == pc = "applied"

HasSpace(op) == IsSome(op.context.space)

\* every File*, Note*, Page* and Space* variant
SpaceScoped(op) == op.action.kind \notin UserActions

DispatchMismatch(op) ==
    \/ ~HasSpace(op) /\ SpaceScoped(op)
    \/ HasSpace(op) /\ ~SpaceScoped(op)

\* C5: a space-scoped action without a space context, or a user-settings action
\* with one, is answered with InvalidOperation and leaves every part of State as
\* it was before the call.
C5_MismatchRejected ==
    (Applied /\ DispatchMismatch(operation)) =>
        (result = "OperationInvalid" /\ state = before)

C5_Witness ==
    /\ Applied
    /\ DispatchMismatch(operation)
    /\ DOMAIN before.files # {}
    /\ result = "OperationInvalid"

Range(seq) == {seq[i] : i \in DOMAIN seq}

BodyConsistent(body) == Range(body.order) = DOMAIN body.sections

\* C6: in every reachable State, the ids in a note's body.order are exactly the
\* keys of its body.sections.
C6_OrderMatchesSections ==
    \A n \in DOMAIN state.notes : BodyConsistent(state.notes[n].body)

\* the position of x in seq (0 if x does not occur)
IndexOf(seq, x) ==
    IF x \in Range(seq) THEN CHOOSE i \in DOMAIN seq : seq[i] = x ELSE 0

\* NoteSetBodySection of a new section id on a note present in State
InsertsNewSection ==
    /\ Applied
    /\ HasSpace(operation)
    /\ operation.action.kind = "NoteSetBodySectionV1"
    /\ IsSome(operation.context.note)
    /\ Unwrap(operation.context.note) \in DOMAIN before.notes
    /\ operation.action.section_id
         \notin Range(before.notes[Unwrap(operation.context.note)].body.order)

\* C7: NoteSetBodySection places the new section id in body.order: appended at the
\* end with after = None, immediately after x with after = Some(x), x in order.
C7_InsertPlacesIdInOrder ==
    InsertsNewSection =>
        LET n == Unwrap(operation.context.note)
            old == before.notes[n].body.order
            new == state.notes[n].body.order
            id == operation.action.section_id
            after == operation.action.after
        IN  /\ result = "Ok"
            /\ ~IsSome(after) => new = Append(old, id)
            /\ (IsSome(after) /\ Unwrap(after) \in Range(old)) =>
                   /\ Len(new) = Len(old) + 1
                   /\ IndexOf(new, id) = IndexOf(new, Unwrap(after)) + 1

FullSetKinds ==
    {"FileSetV1", "FileSetChunkV1", "NoteSetV1", "PageSetV1", "SpaceSetV1"}

\* the map of State a full-object Set action writes, and the record it carries
TargetMap(s, action) ==
    CASE action.kind = "FileSetV1" -> s.files
      [] action.kind = "FileSetChunkV1" -> s.chunks
      [] action.kind = "NoteSetV1" -> s.notes
      [] action.kind = "PageSetV1" -> s.pages
      [] action.kind = "SpaceSetV1" -> s.spaces

Payload(action) ==
    CASE action.kind = "FileSetV1" -> action.file
      [] action.kind = "FileSetChunkV1" -> action.chunk
      [] action.kind = "NoteSetV1" -> action.note
      [] action.kind = "PageSetV1" -> action.page
      [] action.kind = "SpaceSetV1" -> action.space

\* C9: a full-object Set with a space context makes the map of its kind map the
\* record's id to exactly the supplied record (all five kinds).
C9_FullSetStoresRecord ==
    (Applied /\ HasSpace(operation) /\ operation.action.kind \in FullSetKinds) =>
        LET m == TargetMap(state, operation.action)
            r == Payload(operation.action)
        IN  /\ result = "Ok"
            /\ r.id \in DOMAIN m
            /\ m[r.id] = r

FileUnsetApplied ==
    /\ Applied
    /\ HasSpace(operation)
    /\ operation.action.kind = "FileUnsetV1"
    /\ IsSome(operation.context.file)

\* C10: after FileUnset with a space context and file context F, State.files does
\* not contain F and the call returned Ok, whether or not F was present.
C10_FileUnsetRemoves ==
    FileUnsetApplied =>
        (result = "Ok" /\ Unwrap(operation.context.file) \notin DOMAIN state.files)

C10_Witness ==
    /\ FileUnsetApplied
    /\ Unwrap(operation.context.file) \in DOMAIN before.files
    /\ operation \in ConstructorOperations
    /\ result = "Ok"

\* the action of the applied operation, its context, and whether the context
\* names a target of the given kind
AppliedWithSpace == Applied /\ HasSpace(operation)

Kind == operation.action.kind

Target(ty) == operation.context[ty]

\* C11: NoteUnset, PageUnset and SpaceUnset with a space context and the target's
\* id in the context remove the record with that id from notes, pages and spaces:
\* the record is absent after the call.
C11_UnsetRemovesRecord ==
    AppliedWithSpace =>
        /\ (Kind = "NoteUnsetV1" /\ IsSome(Target("note"))) =>
               (result = "Ok" /\ Unwrap(Target("note")) \notin DOMAIN state.notes)
        /\ (Kind = "PageUnsetV1" /\ IsSome(Target("page"))) =>
               (result = "Ok" /\ Unwrap(Target("page")) \notin DOMAIN state.pages)
        /\ Kind = "SpaceUnsetV1" =>
               (result = "Ok" /\ Unwrap(Target("space")) \notin DOMAIN state.spaces)

\* the field a narrow mutation writes, the map its entity lives in, the context
\* entry naming the entity
NarrowFields ==
    [FileSetNameV1 |-> [map |-> "files", target |-> "file", field |-> "name"],
     NoteSetTitleV1 |-> [map |-> "notes", target |-> "note", field |-> "title"],
     PageSetTitleV1 |-> [map |-> "pages", target |-> "page", field |-> "title"],
     PageSetSliceV1 |-> [map |-> "pages", target |-> "page", field |-> "slice"],
     PageSetDisplayV1 |-> [map |-> "pages", target |-> "page", field |-> "view"],
     SpaceSetTitleV1 |-> [map |-> "spaces", target |-> "space", field |-> "title"],
     SpaceSetColorV1 |-> [map |-> "spaces", target |-> "space", field |-> "color"]]

\* the payload of a narrow mutation
NarrowPayload(action) ==
    CASE action.kind \in {"FileSetNameV1", "PageSetTitleV1", "SpaceSetTitleV1"} ->
            action.name
      [] action.kind = "NoteSetTitleV1" -> action.title
      [] action.kind = "PageSetSliceV1" -> action.slice
      [] action.kind = "PageSetDisplayV1" -> action.display
      [] action.kind = "SpaceSetColorV1" -> action.color

\* C12: a narrow field mutation of an entity present in State sets that field to
\* the payload and leaves the entity's other fields as they were (so that after
\* several mutations of one field the last payload is the one held).
C12_NarrowMutationSetsField ==
    (AppliedWithSpace /\ Kind \in DOMAIN NarrowFields) =>
        LET n == NarrowFields[Kind] IN
        (IsSome(Target(n.target)) /\ Unwrap(Target(n.target)) \in DOMAIN before[n.map]) =>
            LET id == Unwrap(Target(n.target)) IN
            /\ result = "Ok"
            /\ id \in DOMAIN state[n.map]
            /\ state[n.map][id] =
                   [before[n.map][id] EXCEPT ![n.field] = NarrowPayload(operation.action)]

\* FileSetName or NoteSetBodySection whose context names a target State lacks
NarrowOnAbsent ==
    /\ AppliedWithSpace
    /\ \/ /\ Kind = "FileSetNameV1"
          /\ IsSome(Target("file"))
          /\ Unwrap(Target("file")) \notin DOMAIN before.files
       \/ /\ Kind = "NoteSetBodySectionV1"
          /\ IsSome(Target("note"))
          /\ Unwrap(Target("note")) \notin DOMAIN before.notes

\* C13: FileSetName and NoteSetBodySection whose target id is in the context but
\* whose target entity is absent from State return Ok and leave State unchanged;
\* no entity is created.
C13_AbsentTargetIsNoOp ==
    NarrowOnAbsent => (result = "Ok" /\ state = before)

C13_Witness ==
    /\ NarrowOnAbsent
    /\ Kind = "FileSetNameV1"
    /\ DOMAIN before.files # {}
    /\ DOMAIN before.notes # {}
    /\ result = "Ok"

\* C14: a space-scoped action variant (every File*, Note*, Page* and Space*
\* variant) applied with a space context is never answered with InvalidOperation.
C14_SpaceScopedNeverInvalid ==
    (AppliedWithSpace /\ SpaceScoped(operation)) => result # "OperationInvalid"

\* the actions that address their target through the context only, and the
\* context entry each requires
NarrowKinds ==
    [FileSetNameV1 |-> "file", FileUnsetV1 |-> "file",
     NoteSetBodySectionV1 |-> "note", NoteSetBodySectionIndentV1 |-> "note",
     NoteSetBodySectionOrderV1 |-> "note", NoteSetDeletedV1 |-> "note",
     NoteSetTagV1 |-> "note", NoteSetTitleV1 |-> "note", NoteUnsetV1 |-> "note",
     NoteUnsetBodySectionV1 |-> "note", NoteUnsetTagV1 |-> "note",
     PageSetDeleted |-> "page", PageSetDisplayV1 |-> "page", PageSetSliceV1 |-> "page",
     PageSetTitleV1 |-> "page", PageUnsetV1 |-> "page"]

\* C15: a narrow action applied with a space context but without the target id it
\* requires in the context fails with MissingContext and leaves State unchanged.
C15_MissingTargetRejected ==
    (AppliedWithSpace /\ Kind \in DOMAIN NarrowKinds /\ ~IsSome(Target(NarrowKinds[Kind]))) =>
        (result = "OperationMissingContext" /\ state = before)

FileKinds == {"FileSetV1", "FileSetChunkV1", "FileSetNameV1", "FileUnsetV1"}

NoteKinds ==
    {"NoteSetV1", "NoteSetBodySectionV1", "NoteSetBodySectionIndentV1",
     "NoteSetBodySectionOrderV1", "NoteSetDeletedV1", "NoteSetTagV1", "NoteSetTitleV1",
     "NoteUnsetV1", "NoteUnsetBodySectionV1", "NoteUnsetTagV1"}

PageKinds ==
    {"PageSetV1", "PageSetDeleted", "PageSetDisplayV1", "PageSetSliceV1",
     "PageSetTitleV1", "PageUnsetV1"}

\* the context names exactly the entities the action targets
MinimalContext(op) ==
    LET c == op.context
        k == op.action.kind
    IN  /\ IsSome(c.space) <=> k \notin UserActions
        /\ IsSome(c.file) <=> k \in FileKinds
        /\ IsSome(c.chunk) <=> k = "FileSetChunkV1"
        /\ IsSome(c.note) <=> k \in NoteKinds
        /\ IsSome(c.page) <=> k \in PageKinds
        /\ k = "FileSetV1" => c.file = Some(op.action.file.id)
        /\ k = "FileSetChunkV1" => c.chunk = Some(op.action.chunk.id)
        /\ k = "NoteSetV1" => c.note = Some(op.action.note.id)
        /\ k = "PageSetV1" => c.page = Some(op.action.page.id)
        /\ k = "SpaceSetV1" => c.space = Some(op.action.space.id)

\* C21: a constructor's context names exactly the entities its action targets:
\* the space for a space-scoped action, the file (and the chunk, for
\* file_set_chunk), note or page its action is about, nothing for the two
\* user-settings actions; a full-object Set names its record's own id.
C21_ConstructorContextMinimal ==
    (pc # "fetch" /\ operation \in ConstructorOperations) => MinimalContext(operation)

C21_Witness ==
    /\ Applied
    /\ operation \in ConstructorOperations
    /\ Kind = "NoteSetV1"
    /\ Target("note") = Some(operation.action.note.id)
    /\ ~IsSome(Target("file"))
    /\ result = "Ok"

\* C22: an operation's space context is the space_id of its target entity: a File,
\* Note or Page stored by apply_operation has the space_id of the context it was
\* stored under (and no constructor pairs a record with another space).
C22_SpaceMatchesTarget ==
    (AppliedWithSpace /\ result = "Ok") =>
        /\ Kind = "FileSetV1" =>
               state.files[operation.action.file.id].space_id = Unwrap(Target("space"))
        /\ Kind = "NoteSetV1" =>
               state.notes[operation.action.note.id].space_id = Unwrap(Target("space"))
        /\ Kind = "PageSetV1" =>
               operation.action.page.space_id = Unwrap(Target("space"))

\* the ids of the records of a map that live in space sp
HeldIn(map, sp) == {id \in DOMAIN map : map[id].space_id = sp}

\* C25: after SpaceUnset with space context S, State.spaces does not contain S and
\* State holds no file, note or page whose space_id is S.
C25_SpaceUnsetRemovesContents ==
    (AppliedWithSpace /\ Kind = "SpaceUnsetV1") =>
        LET sp == Unwrap(Target("space")) IN
        /\ result = "Ok"
        /\ sp \notin DOMAIN state.spaces
        /\ HeldIn(state.files, sp) = {}
        /\ HeldIn(state.notes, sp) = {}
        /\ HeldIn(state.pages, sp) = {}

\* C26: NoteSetDeleted(b) with a space context on a note present in State succeeds
\* and keeps the note with its deleted flag equal to b and its other fields
\* unchanged (PageSetDeleted likewise for a page).
C26_SoftDeleteSetsFlag ==
    AppliedWithSpace =>
        /\ (Kind = "NoteSetDeletedV1" /\ IsSome(Target("note"))
               /\ Unwrap(Target("note")) \in DOMAIN before.notes) =>
              LET n == Unwrap(Target("note")) IN
              /\ result = "Ok"
              /\ n \in DOMAIN state.notes
              /\ "deleted" \in DOMAIN state.notes[n]
              /\ state.notes[n].deleted = operation.action.deleted
              /\ \A f \in DOMAIN before.notes[n] :
                    f # "deleted" => state.notes[n][f] = before.notes[n][f]
        /\ (Kind = "PageSetDeleted" /\ IsSome(Target("page"))
               /\ Unwrap(Target("page")) \in DOMAIN before.pages) =>
              LET p == Unwrap(Target("page")) IN
              /\ result = "Ok"
              /\ p \in DOMAIN state.pages
              /\ "deleted" \in DOMAIN state.pages[p]
              /\ state.pages[p].deleted = operation.action.deleted

StateMaps == {"chunks", "files", "notes", "pages", "spaces"}

\* the entries of one map that differ between two States
ChangedEntries(old, new, map) ==
    {id \in DOMAIN old[map] \cup DOMAIN new[map] :
        \/ id \notin DOMAIN old[map]
        \/ id \notin DOMAIN new[map]
        \/ old[map][id] # new[map][id]}

ChangedMaps(old, new) == {map \in StateMaps : ChangedEntries(old, new, map) # {}}

AppliedWithoutSpace == Applied /\ ~HasSpace(operation)

\* C29: without a space context, UserSetSettings(s) replaces the user-settings
\* singleton by s and UserSetSettingsDefaultSpace(x) sets default_space to x, None
\* included; default_space is absent until such an operation is applied.
C29_UserSettingsReplaced ==
    /\ nops = 0 => state.user_settings.default_space = None
    /\ AppliedWithoutSpace =>
          /\ Kind = "UserSetSettingsV1" =>
                (result = "Ok" /\ state.user_settings = operation.action.settings)
          /\ Kind = "UserSetSettingsDefaultSpaceV1" =>
                /\ result = "Ok"
                /\ state.user_settings.default_space = operation.action.default_space

C29_Witness ==
    /\ AppliedWithoutSpace
    /\ Kind = "UserSetSettingsDefaultSpaceV1"
    /\ operation.action.default_space = None
    /\ before.user_settings.default_space = Some(2)
    /\ state.user_settings.default_space = None

VariantKinds ==
    {OperationActionVariants[i].kind : i \in DOMAIN OperationActionVariants}

ConstructedKinds == {op.action.kind : op \in ConstructorOperations}

\* C30: the variants of OperationAction and the variants the public constructors
\* produce coincide: whatever variant an applied operation carries, a constructor
\* produces it, and every constructor's variant is one of OperationAction.
C30_VariantsAreConstructed ==
    /\ ConstructedKinds \subseteq VariantKinds
    /\ Applied => Kind \in ConstructedKinds

\* C31: apply_operation never answers OperationMissingContext to an operation
\* built by a public constructor: the constructor put into the context every id
\* the action's branch asks for.
C31_ConstructedNeverMissingContext ==
    (Applied /\ operation \in ConstructorOperations) =>
        result # "OperationMissingContext"

C31_Witness ==
    /\ Applied
    /\ operation \in ConstructorOperations
    /\ Kind = "FileUnsetV1"
    /\ result = "Ok"
    /\ Unwrap(Target("file")) \in DOMAIN before.files

\* every record of the map is stored under its own id
KeyedById(map) == \A k \in DOMAIN map : map[k].id = k

\* C32: whatever operations were applied, every record of State.files,
\* State.chunks and State.notes is stored under its own id, also when the context
\* of a full-object Set names another target id or none.
C32_RecordsKeyedByOwnId ==
    /\ KeyedById(state.files)
    /\ KeyedById(state.chunks)
    /\ KeyedById(state.notes)

C32_Witness ==
    /\ Applied
    /\ Kind = "FileSetV1"
    /\ result = "Ok"
    /\ IsSome(Target("file"))
    /\ Target("file") # Some(operation.action.file.id)
    /\ state.files[operation.action.file.id] = operation.action.file
    /\ DOMAIN state.chunks # {}

\* the record a constructor-built operation is about: the chunk, file, note or
\* page its context names, else the space, else the user-settings singleton
TargetRecord(op) ==
    LET c == op.context
    IN  IF IsSome(c.chunk) THEN <<"chunk", Unwrap(c.chunk)>>
        ELSE IF IsSome(c.file) THEN <<"file", Unwrap(c.file)>>
        ELSE IF IsSome(c.note) THEN <<"note", Unwrap(c.note)>>
        ELSE IF IsSome(c.page) THEN <<"page", Unwrap(c.page)>>
        ELSE IF IsSome(c.space) THEN <<"space", Unwrap(c.space)>>
        ELSE <<"user", 0>>

\* the State and the two results of applying a, then b, to s
ApplyBoth(s, a, b) ==
    LET first == apply_operation(s, a)
        second == apply_operation(first.state, b)
    IN  [state |-> second.state, of_a |-> first.result, of_b |-> second.result]

\* the same for b, then a
ApplyBothReversed(s, a, b) ==
    LET first == apply_operation(s, b)
        second == apply_operation(first.state, a)
    IN  [state |-> second.state, of_a |-> second.result, of_b |-> first.result]

OnlyMapsChanged(maps) == ChangedMaps(before, state) \subseteq maps

\* C36: an operation without a space context changes none of the five maps; an
\* operation with a space context leaves the user settings alone; and a FileUnset
\* changes State.files only, so the chunks of the removed file stay in
\* State.chunks.
C36_Frames ==
    Applied =>
        /\ ~HasSpace(operation) => OnlyMapsChanged({})
        /\ HasSpace(operation) => state.user_settings = before.user_settings
        /\ (HasSpace(operation) /\ Kind = "FileUnsetV1") =>
              /\ OnlyMapsChanged({"files"})
              /\ state.chunks = before.chunks

C36_Witness ==
    /\ Applied
    /\ HasSpace(operation)
    /\ Kind = "FileUnsetV1"
    /\ result = "Ok"
    /\ Unwrap(Target("file")) \in DOMAIN before.files
    /\ Unwrap(Target("file")) \notin DOMAIN state.files
    /\ \E c \in DOMAIN state.chunks : state.chunks[c].file_id = Unwrap(Target("file"))

-----------------------------------------------------------------------------
(* The history of one entity: a caller replays operations that all target   *)
(* the same note or the same file record                                    *)

\* the note an operation targets: a NoteSet its record's, any other note action
\* the one its context names
NoteTarget(op) ==
    IF op.action.kind = "NoteSetV1" THEN Some(op.action.note.id)
    ELSE IF op.action.kind \in NoteKinds THEN op.context.note
    ELSE None

\* the file record an operation targets (a chunk is a record of its own)
FileTarget(op) ==
    IF op.action.kind = "FileSetV1" THEN Some(op.action.file.id)
    ELSE IF op.action.kind \in {"FileSetNameV1", "FileUnsetV1"} THEN op.context.file
    ELSE None

TargetOf(op) == [note |-> NoteTarget(op), file |-> FileTarget(op)]

\* the caller takes the next operation of the entity's history
FetchSameTarget(op) ==
    /\ pc = "fetch"
    /\ nops < MaxOps
    /\ TargetOf(op) # [note |-> None, file |-> None]
    /\ IF operation = NoOperation THEN TRUE ELSE TargetOf(op) = TargetOf(operation)
    /\ operation' = op
    /\ pc' = "apply"
    /\ UNCHANGED <<state, before, result, nops, router_vars, crypto_vars>>

\* the call has returned; the caller keeps the operation it replayed last, to
\* draw the next one from the same entity's history
ReturnToHistory ==
    /\ pc = "applied"
    /\ pc' = "fetch"
    /\ before' = State_new
    /\ result' = "None"
    /\ UNCHANGED <<state, operation, nops, router_vars, crypto_vars>>

CheckpointNext ==
    \/ \E op \in Operations : FetchSameTarget(op)
    \/ Apply
    \/ ReturnToHistory

SpecCheckpoint == Init /\ [][CheckpointNext]_vars

\* the State a fold of the single operation op from empty yields
FoldOne(op) == apply_operation(State_new, op).state

\* C27: when every operation of a sequence targets one note N (or one file record
\* F) and the entity is present afterwards with value v, folding the single
\* operation NoteSet(v) (FileSet(v)) from empty yields the State the sequence
\* yields.
C27_CheckpointReplacesRun ==
    (operation # NoOperation /\ pc # "apply") =>
        LET t == TargetOf(operation) IN
        /\ (IsSome(t.note) /\ Unwrap(t.note) \in DOMAIN state.notes) =>
              \A sp \in SpaceIDs :
                  FoldOne(note_set(sp, state.notes[Unwrap(t.note)])) = state
        /\ (IsSome(t.file) /\ Unwrap(t.file) \in DOMAIN state.files) =>
              \A sp \in SpaceIDs :
                  FoldOne(file_set(sp, state.files[Unwrap(t.file)])) = state

C27_Witness ==
    /\ Applied
    /\ nops = 3
    /\ Kind = "NoteSetBodySectionV1"
    /\ NoteTarget(operation) = Some(1)
    /\ 1 \in DOMAIN state.notes
    /\ DOMAIN state.notes[1].body.sections = {1, 2}
    /\ state.notes[1].body.sections # before.notes[1].body.sections

-----------------------------------------------------------------------------
(* Claims about the transaction router                                      *)

Returned == grouped # NotGrouped

Buckets == Unwrap(grouped)

\* how often transaction id occurs in a sequence of ids
CountIn(list, id) == Cardinality({j \in DOMAIN list : list[j] = id})

ErrorsFor(id) == Cardinality({j \in DOMAIN errors : errors[j].id = id})

BucketsHolding(id) == {k \in DOMAIN Buckets : CountIn(Buckets[k], id) > 0}

RECURSIVE SumOfLens(_, _)
SumOfLens(m, keys) ==
    IF keys = {} THEN 0
    ELSE LET k == CHOOSE x \in keys : TRUE
         IN  Len(m[k]) + SumOfLens(m, keys \ {k})

\* C4: every transaction of the batch ends up in exactly one bucket or in exactly
\* one error, never both and never neither; bucket sizes plus errors add up to
\* the length of the batch.
C4_EveryTransactionOnce ==
    Returned =>
        /\ SumOfLens(Buckets, DOMAIN Buckets) + Len(errors) = Len(transactions)
        /\ \A id \in DOMAIN transactions :
              \/ /\ ErrorsFor(id) = 1
                 /\ BucketsHolding(id) = {}
              \/ /\ ErrorsFor(id) = 0
                 /\ Cardinality(BucketsHolding(id)) = 1
                 /\ \A k \in BucketsHolding(id) : CountIn(Buckets[k], id) = 1

C4_Witness ==
    /\ Returned
    /\ Len(transactions) = MaxBatch
    /\ Len(errors) = 1
    /\ Len(Buckets[None]) = 1
    /\ Some(1) \in DOMAIN Buckets

\* the batch as the loop sees it: the transaction at position i, with id i
Numbered(batch) == [i \in DOMAIN batch |-> Transaction(i, batch[i])]

\* a list of transactions without those whose id is in ids
Without(list, ids) == SelectSeq(list, LAMBDA t : t.id \notin ids)

ErrorsOf(id) == SelectSeq(errors, LAMBDA e : e.id = id)

ErrorsNotOf(id) == SelectSeq(errors, LAMBDA e : e.id # id)

IsExt(id) == transactions[id].variant = "ExtV1"

WrongType(id) == IsExt(id) /\ transactions[id].ty # Some(OperationType)

\* passes the variant check and the type check
Accepted(id) == IsExt(id) /\ transactions[id].ty = Some(OperationType)

\* the transaction is filed or reported exactly once
Processed(id) == ErrorsFor(id) + Cardinality(BucketsHolding(id)) = 1

\* the router's answer for the batch without transaction id
AnswerWithout(id) == group_operations_by_space(Without(Numbered(transactions), {id}))

\* C16: a transaction whose type tag is absent or is not turtl/op/v1 yields
\* exactly one WrongTransactionType error carrying its id and is in no bucket, and
\* every other transaction of the batch is grouped exactly as if the rejected one
\* were not in the batch.
C16_WrongTypeRejected ==
    Returned =>
        \A id \in DOMAIN transactions : WrongType(id) =>
            /\ ErrorsOf(id) = <<TransactionWrongType(id)>>
            /\ BucketsHolding(id) = {}
            /\ AnswerWithout(id) = [result |-> Buckets, errors |-> ErrorsNotOf(id)]

\* the scenario: a foreign type tag first, then a valid transaction of space 1
C16_Witness ==
    /\ Returned
    /\ Len(transactions) = 2
    /\ transactions[1].variant = "ExtV1"
    /\ transactions[1].ty = Some("stamp/other")
    /\ Accepted(2)
    /\ errors = <<TransactionWrongType(1)>>
    /\ Buckets = (None :> <<>>) @@ (Some(1) :> <<2>>)

\* C17: a transaction whose body is not ExtV1 yields exactly one
\* WrongTransactionVariant error carrying its id and is in no bucket, and the
\* transactions after it are still processed.
C17_WrongVariantRejected ==
    Returned =>
        \A id \in DOMAIN transactions : ~IsExt(id) =>
            /\ ErrorsOf(id) = <<TransactionWrongVariant(id)>>
            /\ BucketsHolding(id) = {}
            /\ \A later \in DOMAIN transactions : later > id => Processed(later)

C17_Witness ==
    /\ Returned
    /\ Len(transactions) = MaxBatch
    /\ ~IsExt(1)
    /\ Accepted(2)
    /\ BucketsHolding(2) = {Some(2)}
    /\ errors = <<TransactionWrongVariant(1), TransactionWrongVariant(3)>>

\* the routing map of the transaction has a `space` entry
HasSpaceEntry(id) ==
    /\ IsSome(transactions[id].context)
    /\ "space" \in DOMAIN Unwrap(transactions[id].context)

SpaceEntry(id) == Unwrap(transactions[id].context)["space"]

\* the bucket an accepted transaction belongs to: the space whose encoding its
\* `space` entry is, or the personal bucket without an entry
Routes(id, k) ==
    \/ k = None /\ ~HasSpaceEntry(id)
    \/ /\ IsSome(k)
       /\ HasSpaceEntry(id)
       /\ SpaceEntry(id) = EncodeObjectID(Unwrap(k))

\* C18: an accepted transaction is in the bucket keyed by Some(S) when its routing
\* map has a `space` entry that is the encoding of S, in the personal bucket when
\* it has no map or no `space` entry; two accepted, filed transactions share a
\* bucket exactly when they decode to the same space (or both to none).
C18_BucketBySpace ==
    Returned =>
        /\ \A id \in DOMAIN transactions : Accepted(id) =>
              \A k \in {None} \cup {Some(sp) : sp \in SpaceIDs} :
                  Routes(id, k) => BucketsHolding(id) = {k}
        /\ \A i, j \in DOMAIN transactions :
              (Accepted(i) /\ Accepted(j) /\ BucketsHolding(i) # {}
                           /\ BucketsHolding(j) # {}) =>
                  (BucketsHolding(i) = BucketsHolding(j)
                     <=> \/ ~HasSpaceEntry(i) /\ ~HasSpaceEntry(j)
                         \/ /\ HasSpaceEntry(i)
                            /\ HasSpaceEntry(j)
                            /\ SpaceEntry(i) = SpaceEntry(j))

C18_Witness ==
    /\ Returned
    /\ Buckets = (None :> <<2>>) @@ (Some(2) :> <<1, 3>>)
    /\ errors = <<>>
    /\ transactions[2].context # None

\* some accepted transaction of the batch decodes to the space
SomeAcceptedIn(sp) ==
    \E id \in DOMAIN transactions : Accepted(id) /\ Routes(id, Some(sp))

\* C35: the returned map always has the key None, also when no transaction is
\* personal or the batch is empty, and has the key Some(S) exactly when at least
\* one accepted transaction decoded to S: no space bucket is empty.
C35_KeysOfResult ==
    Returned =>
        /\ None \in DOMAIN Buckets
        /\ DOMAIN Buckets \subseteq {None} \cup {Some(sp) : sp \in SpaceIDs}
        /\ \A sp \in SpaceIDs : Some(sp) \in DOMAIN Buckets <=> SomeAcceptedIn(sp)
        /\ \A k \in DOMAIN Buckets : IsSome(k) => Buckets[k] # <<>>

C35_Witness ==
    /\ Returned
    /\ Buckets = (None :> <<>>) @@ (Some(1) :> <<2>>)
    /\ Len(errors) = 2
    /\ HasSpaceEntry(3)
    /\ Len(SpaceEntry(3).value) # UuidLen

\* the `space` entry is present and is not the encoding of any SpaceID
UndecodableSpace(id) ==
    /\ Accepted(id)
    /\ HasSpaceEntry(id)
    /\ Len(SpaceEntry(id).value) # UuidLen

\* C19: an accepted transaction whose `space` entry fails to decode as a SpaceID
\* yields exactly one DeserializationError carrying its id and is in no bucket,
\* the personal one included; the rest of the batch is still processed.
C19_UndecodableSpaceSkipped ==
    Returned =>
        \A id \in DOMAIN transactions : UndecodableSpace(id) =>
            /\ ErrorsOf(id) = <<TransactionDeserializationError(id)>>
            /\ BucketsHolding(id) = {}
            /\ \A other \in DOMAIN transactions : other # id => Processed(other)

C19_Witness ==
    /\ Returned
    /\ Len(transactions) = MaxBatch
    /\ UndecodableSpace(2)
    /\ errors = <<TransactionDeserializationError(2)>>
    /\ Buckets[None] = <<1, 3>>

\* payload bytes other batches carry
OtherPayloads == Payloads \cup {"q"}

\* the batch with the payload of the ExtV1 transaction at position i replaced by f[i]
Repayload(batch, f) ==
    [i \in DOMAIN batch |->
        IF batch[i].variant = "ExtV1" THEN [batch[i] EXCEPT !.payload = f[i]]
                                      ELSE batch[i]]

\* C20: two batches that differ only in the transactions' payload bytes are
\* grouped into the same buckets and get the same errors.
C20_PayloadIndependent ==
    Returned =>
        \A f \in [DOMAIN transactions -> OtherPayloads] :
            group_operations_by_space(Numbered(Repayload(transactions, f)))
                = [result |-> Buckets, errors |-> errors]

C20_Witness ==
    /\ Returned
    /\ Len(transactions) = MaxBatch
    /\ Accepted(1)
    /\ Accepted(3)
    /\ Some(1) \in DOMAIN Buckets
    /\ Len(Buckets[None]) = 1
    /\ Len(errors) = 1
    /\ errors[1].error = "TransactionDeserializationError"

-----------------------------------------------------------------------------
(* Claims about encryption                                                  *)

\* the OperationEncrypted is exactly what encrypt produced
Untouched == sealed_op = Some(encrypt(plain, key))

\* C1: decrypt(k, encrypt(op, k)) succeeds and returns an Operation whose context
\* and action equal op's, for every action variant and every context.
C1_RoundTrip ==
    (Untouched /\ decrypt_key = Some(key)) => Unwrap(decrypted) = Opened(plain)

\* C2: decrypting under a key other than the one the operation was encrypted
\* under returns the sealing primitive's error (Error::Stamp), never an Operation.
C2_WrongKeyFails ==
    (Untouched /\ IsSome(decrypt_key) /\ decrypt_key # Some(key)) =>
        Unwrap(decrypted) = Failed("Stamp")

C2_Witness ==
    /\ Untouched
    /\ decrypt_key = Some("k2")
    /\ key = "k1"
    /\ plain.action.kind = "NoteSetV1"
    /\ ~Unwrap(decrypted).ok

\* the inner-context ciphertext opens and decodes under the key k
ContextOpens(e, k) ==
    /\ open(k, e.ciphertext_context).ok
    /\ DecodeContext(open(k, e.ciphertext_context).value).ok

\* the context sealed by encrypt, under the clear space id the container carries
CarriedContext ==
    [plain.context EXCEPT !.space = Unwrap(sealed_op).context]

ActionCorrupt ==
    Unwrap(sealed_op).ciphertext_action # encrypt(plain, key).ciphertext_action

\* C3: when the inner-context ciphertext opens and decodes under k,
\* get_full_context(k) returns the context a full decrypt under k returns, and it
\* returns that context also when the action ciphertext is corrupt.
C3_FullContextMatchesDecrypt ==
    (IsSome(full_context) /\ ContextOpens(Unwrap(sealed_op), Unwrap(context_key))) =>
        /\ Unwrap(full_context) = Opened(CarriedContext)
        /\ (decrypt_key = context_key /\ Unwrap(decrypted).ok) =>
               Unwrap(decrypted).value.context = Unwrap(full_context).value

C3_Witness ==
    /\ IsSome(full_context)
    /\ ContextOpens(Unwrap(sealed_op), Unwrap(context_key))
    /\ ActionCorrupt
    /\ decrypt_key = context_key
    /\ ~Unwrap(decrypted).ok
    /\ Unwrap(full_context).ok
    /\ IsSome(Unwrap(full_context).value.file)

\* the ciphertext is one sealed under k and not altered since
Authentic(sealed, k) == sealed.sealed_with = k

\* the ciphertext seals bytes that are no encoding of a context or an action
Malformed(sealed) == sealed.plaintext \in MalformedPlaintexts

\* C23: when both ciphertexts open under the key but a plaintext is not a valid
\* encoding, decrypt returns DeserializationError (and so does get_full_context for
\* the inner-context plaintext); when a ciphertext does not open, the result is the
\* sealing primitive's error: the two causes are never reported alike.
C23_FailureKindsDistinct ==
    /\ IsSome(decrypted) =>
          LET e == Unwrap(sealed_op)
              k == Unwrap(decrypt_key)
              both == Authentic(e.ciphertext_context, k) /\ Authentic(e.ciphertext_action, k)
          IN  /\ (both /\ (Malformed(e.ciphertext_context) \/ Malformed(e.ciphertext_action)))
                    => Unwrap(decrypted) = Failed("ASNDeserialize")
              /\ ~both => Unwrap(decrypted) = Failed("Stamp")
    /\ IsSome(full_context) =>
          LET e == Unwrap(sealed_op)
              k == Unwrap(context_key)
          IN  /\ (Authentic(e.ciphertext_context, k) /\ Malformed(e.ciphertext_context))
                    => Unwrap(full_context) = Failed("ASNDeserialize")
              /\ ~Authentic(e.ciphertext_context, k)
                    => Unwrap(full_context) = Failed("Stamp")

C23_Witness ==
    /\ IsSome(decrypted)
    /\ decrypt_key = Some(key)
    /\ ~Malformed(Unwrap(sealed_op).ciphertext_context)
    /\ Malformed(Unwrap(sealed_op).ciphertext_action)
    /\ Unwrap(decrypted) = Failed("ASNDeserialize")
    /\ IsSome(full_context)
    /\ context_key # Some(key)
    /\ Unwrap(full_context) = Failed("Stamp")

\* C24: encrypt's output carries the operation's space id in the clear context
\* field; the plaintext sealed as inner context has no space id and the chunk,
\* file, note and page ids of the operation's context; inner context and action
\* are two separate ciphertexts sealed under the same key.
C24_ContextSplit ==
    Untouched =>
        LET e == Unwrap(sealed_op) IN
        /\ e.context = plain.context.space
        /\ Authentic(e.ciphertext_context, key)
        /\ Authentic(e.ciphertext_action, key)
        /\ DecodeContext(e.ciphertext_context.plaintext)
              = Decoded([plain.context EXCEPT !.space = None])
        /\ e.ciphertext_action.plaintext = EncodeAction(plain.action)
        /\ e.ciphertext_context # e.ciphertext_action

C24_Witness ==
    /\ Untouched
    /\ decrypted = None
    /\ plain.context.space = Some(2)
    /\ IsSome(plain.context.chunk)
    /\ IsSome(plain.context.file)
    /\ key = "k2"

\* the space id sealed inside the inner context, if it opens and decodes under k
InnerSpace(e, k) == DecodeContext(open(k, e.ciphertext_context).value).value.space

\* the clear space id is no longer the one encrypt wrote
SpaceReplaced == Unwrap(sealed_op).context # plain.context.space

\* what decrypt returns for the OperationEncrypted as encrypt produced it
DecryptedUntouched == decrypt(key, encrypt(plain, key))

\* C34: the space id of a decrypted operation, and of the context that
\* get_full_context returns, is the clear context field of the OperationEncrypted,
\* whatever space id the sealed inner context holds; an OperationEncrypted whose
\* clear space id was changed after encryption still decrypts under the original
\* key, to the action and the chunk, file, note and page ids the unchanged one
\* decrypts to, under the changed space id.
C34_SpaceIsClearField ==
    /\ (IsSome(decrypted) /\ Unwrap(decrypted).ok) =>
          Unwrap(decrypted).value.context.space = Unwrap(sealed_op).context
    /\ (IsSome(full_context) /\ Unwrap(full_context).ok) =>
          Unwrap(full_context).value.space = Unwrap(sealed_op).context
    /\ (IsSome(decrypted) /\ decrypt_key = Some(key) /\ SpaceReplaced
            /\ ~ActionCorrupt /\ ContextOpens(Unwrap(sealed_op), key)) =>
          /\ DecryptedUntouched.ok
          /\ Unwrap(decrypted) =
                Opened([DecryptedUntouched.value EXCEPT
                           !.context.space = Unwrap(sealed_op).context])
          /\ Unwrap(decrypted).value.context = CarriedContext

C34_Witness ==
    /\ IsSome(decrypted)
    /\ decrypt_key = Some(key)
    /\ Unwrap(decrypted).ok
    /\ SpaceReplaced
    /\ plain.context.space = Some(1)
    /\ Unwrap(sealed_op).context = Some(2)
    /\ InnerSpace(Unwrap(sealed_op), key) = Some(1)
    /\ Unwrap(decrypted).value.context.space = Some(2)
    /\ IsSome(plain.context.file)

\* C37: decrypting what encrypt produced, under the same key, returns a Crdt
\* whose context is the encrypted Crdt's, is_checkpoint included, and
\* get_full_context under that key returns that same context.
C37_CrdtContextRoundTrip ==
    /\ decrypt_key = Some(key) =>
          /\ Unwrap(decrypted).ok
          /\ Unwrap(decrypted).value.context = plain.context
    /\ context_key = Some(key) => Unwrap(full_context) = Opened(plain.context)

=============================================================================
